---------------------------- MODULE Spec2Model ----------------------------
(***************************************************************************)
(* ZetsuServ Support Portal (flask_app.py v4.0.0).                         *)
(*                                                                         *)
(* The request handlers of the Flask application as a state machine over   *)
(* the relational tables (users, otp_verifications, tickets), the uploads  *)
(* folder, the per-client sessions and the wall clock.  Strings are        *)
(* sequences of one-character strings, so that trimming, lower-casing,     *)
(* the e-mail regular expression and the ticket identifier format are      *)
(* computed as the code computes them.                                     *)
(***************************************************************************)
EXTENDS Integers, Sequences, FiniteSets, TLC

(***************************************************************************)
(* Bounds of the model.                                                    *)
(***************************************************************************)
\* the clock runs from 0 to MaxTime minutes
MaxTime == 11
\* number of OTP rows ever inserted (autoincrement ids 1..MaxOtpId)
MaxOtpId == 2
\* number of ticket rows ever inserted
MaxTickets == 2
\* number of midnights the clock passes
MaxDays == 1
\* the news rows the runs store at most
MaxNews == 1
\* the longest recipient list handed to batch_process_users
MaxRecipients == 11

(***************************************************************************)
(* Program constants.                                                      *)
(***************************************************************************)
OTP_EXPIRY_MINUTES == 10
OTP_LENGTH == 6
MIN_PASSWORD_LENGTH == 8
MAX_NAME_LENGTH == 100
MAX_EMAIL_LENGTH == 254
MAX_MESSAGE_LENGTH == 2000

(***************************************************************************)
(* Characters and strings.                                                 *)
(***************************************************************************)
UpperLetters == <<"A","B","C","D","E","F","G","H","I","J","K","L","M","N","O","P","Q","R","S","T","U","V","W","X","Y","Z">>
LowerLetters == <<"a","b","c","d","e","f","g","h","i","j","k","l","m","n","o","p","q","r","s","t","u","v","w","x","y","z">>
DigitChars == <<"0","1","2","3","4","5","6","7","8","9">>
Whitespace == {" ", "\t", "\n", "\r"}

Range(f) == {f[i] : i \in DOMAIN f}
Letters == Range(UpperLetters) \cup Range(LowerLetters)
Digits == Range(DigitChars)

SetMin(S) == CHOOSE x \in S : \A y \in S : x <= y
SetMax(S) == CHOOSE x \in S : \A y \in S : x >= y

\* str.strip(): drop leading and trailing whitespace
Strip(s) == LET keep == {i \in 1..Len(s) : s[i] \notin Whitespace} IN IF keep = {} THEN <<>> ELSE SubSeq(s, SetMin(keep), SetMax(keep))

LowerChar(c) == IF \E i \in 1..26 : UpperLetters[i] = c THEN LowerLetters[CHOOSE i \in 1..26 : UpperLetters[i] = c] ELSE c
UpperChar(c) == IF \E i \in 1..26 : LowerLetters[i] = c THEN UpperLetters[CHOOSE i \in 1..26 : LowerLetters[i] = c] ELSE c

\* str.lower() and str.upper()
Lower(s) == [i \in 1..Len(s) |-> LowerChar(s[i])]
Upper(s) == [i \in 1..Len(s) |-> UpperChar(s[i])]

Rep(c, n) == [i \in 1..n |-> c]
\* sub in s
Contains(s, sub) == \E i \in 1..(Len(s) - Len(sub) + 1) : SubSeq(s, i, i + Len(sub) - 1) = sub
StartsWith(s, pre) == Len(s) >= Len(pre) /\ SubSeq(s, 1, Len(pre)) = pre
\* the decimal digits of n, zero-padded to width w (strftime's %Y, %m, %d, %H, %M, %S)
Pad(n, w) == [i \in 1..w |-> DigitChars[((n \div (10 ^ (w - i))) % 10) + 1]]

\* re.match(r'^[a-zA-Z0-9._%+-]+@[a-zA-Z0-9.-]+\.[a-zA-Z]{2,}$', email):
\* the string splits as local "@" domain "." tld for some position of the
\* "@" and of the last-used "."
LocalChars == Letters \cup Digits \cup {".", "_", "%", "+", "-"}
DomainChars == Letters \cup Digits \cup {".", "-"}
AllIn(s, lo, hi, S) == \A k \in lo..hi : s[k] \in S
EmailPattern(e) ==
    \E i \in {k \in 1..Len(e) : e[k] = "@"} : \E j \in {k \in (i+1)..Len(e) : e[k] = "."} :
        /\ i >= 2 /\ AllIn(e, 1, i-1, LocalChars)
        /\ j >= i + 2 /\ AllIn(e, i+1, j-1, DomainChars)
        /\ Len(e) >= j + 2 /\ AllIn(e, j+1, Len(e), Letters)
\* "$" also matches before one trailing newline
validate_email(e) ==
    \/ EmailPattern(e)
    \/ Len(e) > 0 /\ e[Len(e)] = "\n" /\ EmailPattern(SubSeq(e, 1, Len(e) - 1))

(***************************************************************************)
(* The values the clients submit.                                          *)
(***************************************************************************)
AdminEmail == <<"z","e","t","s","u","s","e","r","v","@","g","m","a","i","l",".","c","o","m">>
UserEmail == <<"a","@","x",".","i","o">>
EmailInputs == {<<"Z","e","t","s","u","S","e","r","v","@","g","m","a","i","l",".","c","o","m">>, <<" ","A","@","x",".","i","o"," ">>, <<"a","@","x">>, <<" ">>}
GoodPassword == <<"p","a","s","s","w","o","r","d","1">>
OtherPassword == <<"h","u","n","t","e","r","2","2","2">>
PasswordInputs == {GoodPassword, <<"s","h","o","r","t">>, <<" "," ">>}
ConfirmInputs == {GoodPassword, <<"s","h","o","r","t">>}

\* the digit draws of secrets.randbelow(10) the model explores
OtpDraws == {<<1,2,3,4,5,6>>, <<0,0,7,0,0,7>>}
\* generate_otp(): the OTP_LENGTH drawn digits, joined as a string
generate_otp(draw) == [i \in 1..OTP_LENGTH |-> DigitChars[draw[i] + 1]]
OtpCodes == {generate_otp(d) : d \in OtpDraws}
OtpInputs == OtpCodes \cup {<<" ">> \o generate_otp(<<1,2,3,4,5,6>>), <<"7","0","0","7">>, <<>>}

Sessions == {"s1", "s2"}
NoPending == [email |-> <<>>, password |-> <<>>]
NoUser == 0
NoRow == 0

(***************************************************************************)
(* State.                                                                  *)
(***************************************************************************)
VARIABLES
    users,      \* table users: set of rows
    otps,       \* table otp_verifications: set of rows
    session,    \* per client: the Flask session (pending_registration, logged-in user id)
    now,        \* datetime.now(timezone.utc), in minutes
    nextOtpId,  \* next primary key of otp_verifications
    nextUserId, \* next primary key of users
    inflight,   \* per client: the request being handled, between its reads and its commit
    dbUp,       \* whether the database accepts commits
    smtpSet,    \* whether SENDER_EMAIL and EMAIL_PASSWORD are configured
    webhookUrl, \* N8N_WEBHOOK_URL as urlparse splits it, or NoUrl
    tickets,    \* table tickets: set of rows
    nextTicketId, \* next primary key of tickets
    uploads,    \* the names of the files in UPLOAD_FOLDER
    news,       \* table news: set of rows
    mailbox,    \* the OTP mails the SMTP server accepted: address and code
    batch,      \* the call of batch_process_users in progress: its arguments, position and counts
    last        \* the last request handled and its response

authVars == <<users, otps, session, nextOtpId, nextUserId, inflight>>
ticketVars == <<tickets, nextTicketId, uploads, news>>
config == <<dbUp, smtpSet, webhookUrl>>
vars == <<users, otps, session, now, nextOtpId, nextUserId, inflight, dbUp, smtpSet, webhookUrl, tickets, nextTicketId, uploads, news, mailbox, batch, last>>

NoReq == [op |-> "none"]
\* no call of batch_process_users in progress
NoBatch == [pc |-> "idle", user_emails |-> <<>>, i |-> 0, k |-> 0, success |-> 0, failed |-> 0, sleeps |-> 0, calls |-> <<>>]
NoArg == <<>>

\* a check that accepts every password
check_password_hash_Any(h, p) == TRUE

\* werkzeug.security.generate_password_hash / check_password_hash
generate_password_hash(p) == <<"h","$">> \o p
check_password_hash(h, p) == h = generate_password_hash(p)

\* a handled request: the handler, the client, the branch taken, the response,
\* the (normalised) form value, the OTP row and code the handler looked at,
\* or the identifier it generated, the number of mails sent, whether the webhook
\* was POSTed to, and the code the flashed message shows
\* fx tells how the mail and the webhook call of the request ended, data is
\* what the response body carries of the tables and the uploads folder
Reply(op, s, kind, resp, input, row, code, mailed, hook, shown, fx, data) == [op |-> op, sid |-> s, kind |-> kind, resp |-> resp, input |-> input, row |-> row, code |-> code, mailed |-> mailed, hook |-> hook, shown |-> shown, fx |-> fx, data |-> data]
NoFx == [mail |-> "none", hook |-> "none"]
Response(op, s, kind, resp, input, row, code, mailed, hook, shown) == Reply(op, s, kind, resp, input, row, code, mailed, hook, shown, NoFx, {})

\* current_user.is_authenticated: load_user finds the row of the session's user id
is_authenticated(s) == \E u \in users : u.id = session[s].uid
HasPending(s) == session[s].pending # NoPending

NoUrl == [scheme |-> <<>>, hostname |-> <<>>]

Start ==
    /\ tickets = {}
    /\ nextTicketId = 1
    /\ uploads = {}
    /\ news = {}
    /\ mailbox = {}
    /\ batch = NoBatch
    /\ users = {}
    /\ otps = {}
    /\ session = [s \in Sessions |-> [pending |-> NoPending, uid |-> NoUser]]
    /\ now = 0
    /\ nextOtpId = 1
    /\ nextUserId = 1
    /\ inflight = [s \in Sessions |-> NoReq]
    /\ dbUp = TRUE
    /\ last = Response("init", "s1", "init", "none", NoArg, NoRow, <<>>, 0, FALSE, <<>>)

\* the portal as deployed without a webhook
Init == Start /\ smtpSet \in BOOLEAN /\ webhookUrl = NoUrl

(***************************************************************************)
(* register (POST).                                                        *)
(***************************************************************************)
\* request.form.get(...).strip() (and .lower() for the email), and the format
\* check, of each value a client may submit
NormEmail == [e \in EmailInputs |-> Lower(Strip(e))]
NormPassword == [p \in PasswordInputs \cup ConfirmInputs \cup {<<" ">> \o GoodPassword \o <<" ">>, OtherPassword} |-> Strip(p)]
EmailOk == [e \in EmailInputs |-> validate_email(NormEmail[e])]

\* a register that does not look for an existing account
RegisterKind_NoExistsCheck(s, emailRaw, passwordRaw, confirmRaw) ==
    LET email == NormEmail[emailRaw]
        password == NormPassword[passwordRaw]
        confirm == NormPassword[confirmRaw]
    IN IF is_authenticated(s) THEN "authenticated"
       ELSE IF email = <<>> \/ password = <<>> \/ confirm = <<>> THEN "missing"
       ELSE IF ~EmailOk[emailRaw] THEN "bad_email"
       ELSE IF password # confirm THEN "password_mismatch"
       ELSE IF Len(password) < MIN_PASSWORD_LENGTH THEN "weak_password"
       ELSE "issue"

\* the validation of the form and the look-up of an existing user: what the
\* request decides before it writes
RegisterKind(s, emailRaw, passwordRaw, confirmRaw) ==
    LET email == NormEmail[emailRaw]
        password == NormPassword[passwordRaw]
        confirm == NormPassword[confirmRaw]
    IN IF is_authenticated(s) THEN "authenticated"
       ELSE IF email = <<>> \/ password = <<>> \/ confirm = <<>> THEN "missing"
       ELSE IF ~EmailOk[emailRaw] THEN "bad_email"
       ELSE IF password # confirm THEN "password_mismatch"
       ELSE IF Len(password) < MIN_PASSWORD_LENGTH THEN "weak_password"
       ELSE IF \E u \in users : u.email = email THEN "exists"
       ELSE "issue"

\* the decision, and the e-mail and password a request that goes on carries
RegisterPlan(s, emailRaw, passwordRaw, confirmRaw) ==
    LET kind == RegisterKind(s, emailRaw, passwordRaw, confirmRaw)
    IN [op |-> "register", kind |-> kind, email |-> IF kind = "issue" THEN NormEmail[emailRaw] ELSE <<>>, password |-> IF kind = "issue" THEN NormPassword[passwordRaw] ELSE <<>>, input |-> NormEmail[emailRaw], row |-> NoRow, code |-> <<>>]

\* a register that leaves the earlier rows of the email in the table
IssueOtp_KeepOld(email, code) ==
    otps \cup {[id |-> nextOtpId, email |-> email, otp_code |-> code, expires_at |-> now + OTP_EXPIRY_MINUTES, verified |-> FALSE, created_at |-> now]}

\* OTPVerification.query.filter_by(email=email).delete() followed by the insert
\* of the new row, as one transaction
IssueOtp(email, code) ==
    {r \in otps : r.email # email} \cup {[id |-> nextOtpId, email |-> email, otp_code |-> code, expires_at |-> now + OTP_EXPIRY_MINUTES, verified |-> FALSE, created_at |-> now]}

\* send_otp_email: False without credentials, else whether the SMTP exchange succeeded
send_otp_email(delivered) == smtpSet /\ delivered

\* the writes of the request and its response; draw is the OTP drawn,
\* delivered whether the SMTP server takes the mail
RegisterCommit(s, plan, draw, delivered) ==
    IF plan.kind = "authenticated"
    THEN /\ last' = Response("register", s, plan.kind, "redirect:dashboard", plan.input, NoRow, <<>>, 0, FALSE, <<>>)
         /\ UNCHANGED <<users, otps, session, nextOtpId, nextUserId>>
    ELSE IF plan.kind # "issue"
    THEN /\ last' = Response("register", s, plan.kind, "redirect:register", plan.input, NoRow, <<>>, 0, FALSE, <<>>)
         /\ UNCHANGED <<users, otps, session, nextOtpId, nextUserId>>
    ELSE /\ nextOtpId <= MaxOtpId
         /\ UNCHANGED <<users, nextUserId>>
         /\ IF dbUp
            THEN /\ session' = [session EXCEPT ![s].pending = [email |-> plan.email, password |-> plan.password]]
                 /\ otps' = IssueOtp(plan.email, generate_otp(draw))
                 /\ nextOtpId' = nextOtpId + 1
                 /\ last' = Response("register", s, "issued", "redirect:verify_otp", plan.input, nextOtpId, generate_otp(draw), (IF send_otp_email(delivered) THEN 1 ELSE 0), FALSE, IF send_otp_email(delivered) THEN <<>> ELSE generate_otp(draw))
            ELSE /\ UNCHANGED <<otps, nextOtpId>>
                 \* the database fails either at the DELETE of the old rows, before
                 \* the session is written, or at the commit, after it
                 /\ \E failed_at \in {"delete", "commit"} :
                       session' = IF failed_at = "commit"
                                  THEN [session EXCEPT ![s].pending = [email |-> plan.email, password |-> plan.password]]
                                  ELSE session
                 /\ last' = Response("register", s, "commit_failed", "redirect:register", plan.input, NoRow, <<>>, 0, FALSE, <<>>)

\* the request handled without interruption: its reads, writes and response
RegisterRequest(s) ==
    /\ inflight[s] = NoReq
    /\ \E e \in EmailInputs, p \in PasswordInputs, c \in ConfirmInputs :
           LET plan == RegisterPlan(s, e, p, c)
           IN IF plan.kind = "issue"
              THEN \E draw \in OtpDraws, delivered \in BOOLEAN : RegisterCommit(s, plan, draw, delivered)
              ELSE RegisterCommit(s, plan, <<0,0,0,0,0,0>>, FALSE)
    /\ UNCHANGED <<now, inflight, config, ticketVars>>

\* the request, the mailboxes left out of the picture
RegisterPost(s) == RegisterRequest(s) /\ UNCHANGED <<mailbox, batch>>

\* the request, and the OTP mail the SMTP server accepted arriving in the
\* mailbox of its address
RegisterPostMail(s) ==
    /\ RegisterRequest(s)
    /\ mailbox' = IF last'.kind = "issued" /\ last'.mailed = 1 THEN mailbox \cup {[to |-> last'.input, code |-> last'.code]} ELSE mailbox
    /\ UNCHANGED batch

(***************************************************************************)
(* verify_otp (POST).                                                      *)
(***************************************************************************)
\* OTPVerification.query.filter_by(email=email, verified=False)
Unverified(email) == {r \in otps : r.email = email /\ ~r.verified}
\* .order_by(OTPVerification.created_at.desc()).first(): a row of the latest
\* created_at; rows of equal created_at come in either order
MostRecent(rows) == {r \in rows : \A q \in rows : q.created_at <= r.created_at}

\* OTPVerification.is_expired: datetime.now(timezone.utc) > self.expires_at,
\* both read as minutes on the one clock `now`
is_expired(r) == now > r.expires_at

\* a verify_otp that compares the code without looking at the expiry
VerifyKind_NoExpiry(r, otp_input) == IF r.otp_code # otp_input THEN "mismatch" ELSE "match"

\* a verify_otp that treats a wrong code like an expired one
VerifyKind_MismatchExpires(r, otp_input) ==
    IF is_expired(r) \/ r.otp_code # otp_input THEN "expired" ELSE "match"

VerifyKind(r, otp_input) ==
    IF is_expired(r) THEN "expired"
    ELSE IF r.otp_code # otp_input THEN "mismatch"
    ELSE "match"

\* what the request decides before it writes: one plan per row the query may return
VerifyPlans(s, otpRaw) ==
    LET pending == session[s].pending
        otp_input == Strip(otpRaw)
        found == MostRecent(Unverified(pending.email))
        base == [op |-> "verify_otp", kind |-> "no_pending", email |-> <<>>, password |-> <<>>, input |-> otp_input, row |-> NoRow, code |-> <<>>]
    IN IF ~HasPending(s) THEN {base}
       ELSE IF otp_input = <<>> THEN {[base EXCEPT !.kind = "empty"]}
       ELSE IF found = {} THEN {[base EXCEPT !.kind = "not_found"]}
       ELSE {IF VerifyKind(r, otp_input) = "match"
             THEN [base EXCEPT !.kind = "match", !.row = r.id, !.code = r.otp_code, !.email = pending.email, !.password = pending.password]
             ELSE [base EXCEPT !.kind = VerifyKind(r, otp_input), !.row = r.id, !.code = r.otp_code] : r \in found}

\* a users table without the unique index
UniqueEmailOk_Off(email) == TRUE

\* users.email is unique: the insert of a second row with the email is refused
UniqueEmailOk(email) == ~\E u \in users : u.email = email

\* every new account an administrator
IsAdminEmail_Any(email) == TRUE

\* is_admin = (email == 'zetsuserv@gmail.com')
IsAdminEmail(email) == email = AdminEmail

NewUser(email, password) == [id |-> nextUserId, email |-> email, password_hash |-> generate_password_hash(password), is_admin |-> IsAdminEmail(email), is_verified |-> TRUE]

\* a commit that forgets the verified flag
MarkVerified_Forgotten(rowId) == otps

\* otp_record.verified = True, flushed as an UPDATE of the row with that id
MarkVerified(rowId) == {IF r.id = rowId THEN [r EXCEPT !.verified = TRUE] ELSE r : r \in otps}

\* the commit of the try block succeeds when the database is up, the UPDATE
\* finds its row and the unique index on users.email accepts the insert
VerifyCommitOk(plan) == dbUp /\ (\E r \in otps : r.id = plan.row) /\ UniqueEmailOk(plan.email)

\* an expiry branch that leaves the row in the table
DeleteOtp_Keep(rowId) == otps

\* db.session.delete(otp_record)
DeleteOtp(rowId) == {r \in otps : r.id # rowId}

ClearPending(s) == [session EXCEPT ![s].pending = NoPending]

\* the writes of the request and its response
VerifyCommit(s, plan) ==
    /\ UNCHANGED <<nextOtpId>>
    /\ CASE plan.kind = "no_pending" ->
              /\ last' = Response("verify_otp", s, plan.kind, "redirect:register", plan.input, NoRow, <<>>, 0, FALSE, <<>>)
              /\ UNCHANGED <<users, otps, session, nextUserId>>
         [] plan.kind = "empty" ->
              /\ last' = Response("verify_otp", s, plan.kind, "redirect:verify_otp", plan.input, NoRow, <<>>, 0, FALSE, <<>>)
              /\ UNCHANGED <<users, otps, session, nextUserId>>
         [] plan.kind = "not_found" ->
              /\ session' = ClearPending(s)
              /\ last' = Response("verify_otp", s, plan.kind, "redirect:register", plan.input, NoRow, <<>>, 0, FALSE, <<>>)
              /\ UNCHANGED <<users, otps, nextUserId>>
         [] plan.kind = "expired" ->
              /\ session' = ClearPending(s)
              /\ otps' = IF dbUp THEN DeleteOtp(plan.row) ELSE otps
              /\ last' = Response("verify_otp", s, plan.kind, IF dbUp THEN "redirect:register" ELSE "error:500", plan.input, plan.row, plan.code, 0, FALSE, <<>>)
              /\ UNCHANGED <<users, nextUserId>>
         [] plan.kind = "mismatch" ->
              /\ last' = Response("verify_otp", s, plan.kind, "redirect:verify_otp", plan.input, plan.row, plan.code, 0, FALSE, <<>>)
              /\ UNCHANGED <<users, otps, session, nextUserId>>
         [] plan.kind = "match" ->
              IF VerifyCommitOk(plan)
              THEN /\ otps' = MarkVerified(plan.row)
                   /\ users' = users \cup {NewUser(plan.email, plan.password)}
                   /\ nextUserId' = nextUserId + 1
                   /\ session' = ClearPending(s)
                   /\ last' = Response("verify_otp", s, "verified", "redirect:login", plan.input, plan.row, plan.code, 0, FALSE, <<>>)
              ELSE /\ last' = Response("verify_otp", s, "commit_failed", "redirect:verify_otp", plan.input, plan.row, plan.code, 0, FALSE, <<>>)
                   /\ UNCHANGED <<users, otps, session, nextUserId>>

\* the request handled without interruption
VerifyOtpPost(s) ==
    /\ inflight[s] = NoReq
    /\ \E c \in OtpInputs : \E plan \in VerifyPlans(s, c) : VerifyCommit(s, plan)
    /\ UNCHANGED <<now, inflight, config, mailbox, batch, ticketVars>>

(***************************************************************************)
(* login (POST), logout, and the clock.                                    *)
(***************************************************************************)
\* the handler for the form fields e and p; input is what the response
\* record keeps of them
LoginRequest(s, e, p, input) ==
    LET email == NormEmail[e]
        password == NormPassword[p]
        found == {u \in users : u.email = email /\ check_password_hash(u.password_hash, password)}
    IN IF is_authenticated(s)
       THEN /\ last' = Response("login", s, "authenticated", "redirect:dashboard", input, NoRow, <<>>, 0, FALSE, <<>>)
            /\ UNCHANGED session
       ELSE IF email = <<>> \/ password = <<>>
       THEN /\ last' = Response("login", s, "missing", "redirect:login", input, NoRow, <<>>, 0, FALSE, <<>>)
            /\ UNCHANGED session
       ELSE IF found = {}
       THEN /\ last' = Response("login", s, "invalid", "redirect:login", input, NoRow, <<>>, 0, FALSE, <<>>)
            /\ UNCHANGED session
       ELSE \E u \in found :
            /\ session' = [session EXCEPT ![s].uid = u.id]
            /\ last' = Response("login", s, "logged_in", "redirect:dashboard", input, NoRow, <<>>, 0, FALSE, <<>>)

LoginPost(s) ==
    /\ inflight[s] = NoReq
    /\ \E e \in EmailInputs, p \in PasswordInputs : LoginRequest(s, e, p, NoArg)
    /\ UNCHANGED <<users, otps, now, nextOtpId, nextUserId, inflight, config, mailbox, batch, ticketVars>>

\* the passwords tried at login: the registered one, as typed and with
\* blanks around it, another one, a short one and a blank one
LoginPasswords == PasswordInputs \cup {<<" ">> \o GoodPassword \o <<" ">>, OtherPassword}
\* the same request, the response record keeping the fields posted
LoginPostTry(s) ==
    /\ inflight[s] = NoReq
    /\ \E e \in EmailInputs, p \in LoginPasswords : LoginRequest(s, e, p, <<e, p>>)
    /\ UNCHANGED <<users, otps, now, nextOtpId, nextUserId, inflight, config, mailbox, batch, ticketVars>>

Logout(s) ==
    /\ inflight[s] = NoReq
    /\ IF is_authenticated(s)
       THEN /\ session' = [session EXCEPT ![s].uid = NoUser]
            /\ last' = Response("logout", s, "logged_out", "redirect:home", NoArg, NoRow, <<>>, 0, FALSE, <<>>)
       ELSE /\ last' = Response("logout", s, "login_required", "redirect:login", NoArg, NoRow, <<>>, 0, FALSE, <<>>)
            /\ UNCHANGED session
    /\ UNCHANGED <<users, otps, now, nextOtpId, nextUserId, inflight, config, mailbox, batch, ticketVars>>

\* time passes
Tick ==
    /\ \E d \in {OTP_EXPIRY_MINUTES, OTP_EXPIRY_MINUTES + 1} : now + d <= MaxTime /\ now' = now + d
    /\ last' = Response("tick", "s1", "tick", "none", NoArg, NoRow, <<>>, 0, FALSE, <<>>)
    /\ UNCHANGED <<authVars, config, mailbox, batch, ticketVars>>

(***************************************************************************)
(* The clock as a date and a time of day.                                  *)
(***************************************************************************)
MinutesPerDay == 24 * 60
StartDate == <<2025, 12, 31>>
IsLeap(y) == (y % 4 = 0 /\ y % 100 # 0) \/ y % 400 = 0
DaysInMonth(y, m) == IF m = 2 THEN (IF IsLeap(y) THEN 29 ELSE 28) ELSE IF m \in {4, 6, 9, 11} THEN 30 ELSE 31
NextDate(d) ==
    IF d[3] < DaysInMonth(d[1], d[2]) THEN <<d[1], d[2], d[3] + 1>>
    ELSE IF d[2] < 12 THEN <<d[1], d[2] + 1, 1>>
    ELSE <<d[1] + 1, 1, 1>>
RECURSIVE AddDays(_, _)
AddDays(d, k) == IF k = 0 THEN d ELSE AddDays(NextDate(d), k - 1)
\* the '%Y%m%d' of each day the clock reaches, computed once
Ymd == [k \in 0..MaxDays |-> LET d == AddDays(StartDate, k) IN Pad(d[1], 4) \o Pad(d[2], 2) \o Pad(d[3], 2)]
\* datetime.now(timezone.utc).strftime('%Y%m%d')
strftime_Ymd(t) == Ymd[t \div MinutesPerDay]
\* datetime.now(timezone.utc).strftime('%Y%m%d_%H%M%S'); the clock counts whole minutes
strftime_Ymd_HMS(t) == strftime_Ymd(t) \o <<"_">> \o Pad((t % MinutesPerDay) \div 60, 2) \o Pad(t % 60, 2) \o Pad(0, 2)

(***************************************************************************)
(* Ticket identifiers and attachment names.                                *)
(***************************************************************************)
HexChars == <<"0","1","2","3","4","5","6","7","8","9","a","b","c","d","e","f">>
\* the random bytes of secrets.token_hex(4) the model explores
TokenDraws == {<<0, 0, 0, 0>>, <<222, 173, 190, 239>>}
\* secrets.token_hex: two lower-case hexadecimal digits per byte
token_hex(bytes) == [i \in 1..(2 * Len(bytes)) |-> IF i % 2 = 1 THEN HexChars[(bytes[(i + 1) \div 2] \div 16) + 1] ELSE HexChars[(bytes[i \div 2] % 16) + 1]]

\* secrets.token_hex(4).upper() of each draw, computed once
random_str == [bytes \in TokenDraws |-> Upper(token_hex(bytes))]
\* generate_ticket_id(): f"ZS-{timestamp}-{random_str}"
generate_ticket_id(bytes) == <<"Z","S","-">> \o strftime_Ymd(now) \o <<"-">> \o random_str[bytes]

ALLOWED_EXTENSIONS == {<<"t","x","t">>, <<"p","d","f">>, <<"p","n","g">>, <<"j","p","g">>, <<"j","p","e","g">>, <<"g","i","f">>, <<"d","o","c">>, <<"d","o","c","x">>}
\* the index of the last "." of a file name, 0 if there is none
LastDot(f) == LET dots == {i \in 1..Len(f) : f[i] = "."} IN IF dots = {} THEN 0 ELSE SetMax(dots)
\* allowed_file: '.' in filename and filename.rsplit('.', 1)[1].lower() in ALLOWED_EXTENSIONS
allowed_file(f) == LastDot(f) > 0 /\ Lower(SubSeq(f, LastDot(f) + 1, Len(f))) \in ALLOWED_EXTENSIONS

\* werkzeug.utils.secure_filename: path separators become spaces, runs of
\* whitespace become one "_", characters outside [A-Za-z0-9_.-] are
\* dropped, and leading and trailing "." and "_" are stripped
FilenameChars == Letters \cup Digits \cup {"_", ".", "-"}
RECURSIVE JoinSplit(_, _)
JoinSplit(s, i) ==
    IF i > Len(s) THEN <<>>
    ELSE IF s[i] \in Whitespace THEN (IF s[i + 1] \in Whitespace THEN <<>> ELSE <<"_">>) \o JoinSplit(s, i + 1)
    ELSE <<s[i]>> \o JoinSplit(s, i + 1)
RECURSIVE KeepChars(_, _, _)
KeepChars(s, i, S) == IF i > Len(s) THEN <<>> ELSE (IF s[i] \in S THEN <<s[i]>> ELSE <<>>) \o KeepChars(s, i + 1, S)
StripChars(s, S) == LET keep == {i \in 1..Len(s) : s[i] \notin S} IN IF keep = {} THEN <<>> ELSE SubSeq(s, SetMin(keep), SetMax(keep))
secure_filename(f) ==
    LET spaced == [i \in 1..Len(f) |-> IF f[i] = "/" THEN " " ELSE f[i]]
    IN StripChars(KeepChars(JoinSplit(Strip(spaced), 1), 1, FilenameChars), {".", "_"})

(***************************************************************************)
(* submit (POST).                                                          *)
(***************************************************************************)
ALLOWED_ISSUE_TYPES == {<<"T","e","c","h","n","i","c","a","l"," ","S","u","p","p","o","r","t">>, <<"B","i","l","l","i","n","g"," ","I","n","q","u","i","r","y">>, <<"F","e","a","t","u","r","e"," ","R","e","q","u","e","s","t">>, <<"B","u","g"," ","R","e","p","o","r","t">>, <<"G","e","n","e","r","a","l"," ","Q","u","e","s","t","i","o","n">>, <<"A","c","c","o","u","n","t"," ","I","s","s","u","e">>, <<"P","r","o","d","u","c","t"," ","I","n","q","u","i","r","y">>}
TICKET_PRIORITIES == {<<"L","o","w">>, <<"M","e","d","i","u","m">>, <<"H","i","g","h">>, <<"U","r","g","e","n","t">>}
Medium == <<"M","e","d","i","u","m">>

\* the forms the clients submit: name, email, issue_type, priority, message
\* and the name of the attached file (<<>> without one)
Form(name, email, issue_type, priority, message, attachment) == [name |-> name, email |-> email, issue_type |-> issue_type, priority |-> priority, message |-> message, attachment |-> attachment]
Alice == <<"A","l","i","c","e">>
AliceMail == <<"a","@","x",".","c","o","m">>
BugReport == <<"B","u","g"," ","R","e","p","o","r","t">>
Low == <<"L","o","w">>
Hello == <<"h","e","l","l","o">>
UrgentProblem == <<"u","r","g","e","n","t"," ","p","r","o","b","l","e","m">>
HelpAsap == <<"H","e","l","p"," ","A","S","A","P">>
NoFile == <<>>
Forms == <<
    Form(Alice, AliceMail, BugReport, Low, UrgentProblem, NoFile),
    Form(Alice, AliceMail, <<" ">> \o BugReport, <<"C","r","i","t","i","c","a","l">>, HelpAsap, <<"m","y"," ","p","i","c",".","P","N","G">>),
    Form(<<" ">> \o Rep("n", MAX_NAME_LENGTH) \o <<" ">>, Rep("e", MAX_EMAIL_LENGTH - 6) \o <<"@","x",".","c","o","m">>, BugReport, <<"U","r","g","e","n","t">>, Rep("m", MAX_MESSAGE_LENGTH) \o <<"\n">>, <<"r","u","n",".","e","x","e">>),
    Form(<<" ", " ">>, AliceMail, BugReport, Low, UrgentProblem, NoFile),
    Form(Alice, AliceMail, BugReport, Low, <<"\t">>, NoFile),
    Form(Rep("n", MAX_NAME_LENGTH + 1), AliceMail, BugReport, Low, Hello, NoFile),
    Form(Alice, Rep("e", MAX_EMAIL_LENGTH - 5) \o <<"@","x",".","c","o","m">>, BugReport, Low, Hello, NoFile),
    Form(Alice, AliceMail, BugReport, Low, Rep("m", MAX_MESSAGE_LENGTH + 1), NoFile),
    Form(Alice, <<"a","@","x">>, BugReport, Low, Hello, NoFile),
    Form(Alice, AliceMail, <<"O","t","h","e","r">>, Low, Hello, NoFile),
    Form(<<" ", " ">>, AliceMail, BugReport, Low, Hello, <<"m","y"," ","p","i","c",".","P","N","G">>),
    Form(Alice, AliceMail, BugReport, <<"C","r","i","t","i","c","a","l">>, Hello, NoFile),
    Form(Alice, AliceMail, BugReport, <<" ","H","i","g","h"," ">>, Hello, <<"m","y"," ","p","i","c",".","P","N","G">>) >>
\* the forms of the runs across days, and the forms of the runs with failing
\* mail, webhook and database
DailyForms == 1..10
EffectForms == {1, 11, 12, 13}

\* the validations with the name limit off by one
SubmitKind_NameOffByOne(name, email, issue_type, message) ==
    IF name = <<>> \/ email = <<>> \/ issue_type = <<>> \/ message = <<>> THEN "missing"
    ELSE IF Len(name) >= MAX_NAME_LENGTH THEN "name_long"
    ELSE IF Len(email) > MAX_EMAIL_LENGTH THEN "email_long"
    ELSE IF Len(message) > MAX_MESSAGE_LENGTH THEN "message_long"
    ELSE IF ~validate_email(email) THEN "bad_email"
    ELSE IF issue_type \notin ALLOWED_ISSUE_TYPES THEN "bad_issue_type"
    ELSE "valid"

\* the first validation that fails, in the order of the handler
SubmitKind(name, email, issue_type, message) ==
    IF name = <<>> \/ email = <<>> \/ issue_type = <<>> \/ message = <<>> THEN "missing"
    ELSE IF Len(name) > MAX_NAME_LENGTH THEN "name_long"
    ELSE IF Len(email) > MAX_EMAIL_LENGTH THEN "email_long"
    ELSE IF Len(message) > MAX_MESSAGE_LENGTH THEN "message_long"
    ELSE IF ~validate_email(email) THEN "bad_email"
    ELSE IF issue_type \notin ALLOWED_ISSUE_TYPES THEN "bad_issue_type"
    ELSE "valid"

\* a handler that stores the priority of the form as it comes
StoredPriority_AsGiven(priority) == priority

\* if priority not in TICKET_PRIORITIES: priority = 'Medium'
StoredPriority(priority) == IF priority \in TICKET_PRIORITIES THEN priority ELSE Medium

\* the secured name of the file of each form that carries an allowed file, computed once
SecuredName == [k \in DOMAIN Forms |-> IF Forms[k].attachment # <<>> /\ allowed_file(Forms[k].attachment) THEN <<secure_filename(Forms[k].attachment)>> ELSE <<>>]
\* the name the upload of form k is saved under: the timestamp and the
\* secured name, <<>> when nothing is saved
AttachmentName(k, t) == IF SecuredName[k] # <<>> THEN strftime_Ymd_HMS(t) \o <<"_">> \o SecuredName[k][1] ELSE <<>>

\* the stripped fields and the decision of each form, computed once
FormPlan ==
    [k \in DOMAIN Forms |->
        LET f == Forms[k]
            name == Strip(f.name)
            email == Strip(f.email)
            issue_type == Strip(f.issue_type)
            message == Strip(f.message)
        IN [kind |-> SubmitKind(name, email, issue_type, message), name |-> name, email |-> email, issue_type |-> issue_type, priority |-> StoredPriority(Strip(f.priority)), message |-> message]]

\* a table without the unique index on ticket_id
UniqueTicketIdOk_Off(ticket_id) == TRUE

\* tickets.ticket_id is unique: the insert of a second row with the identifier is refused
UniqueTicketIdOk(ticket_id) == ~\E t \in tickets : t.ticket_id = ticket_id

NewTicket(plan, ticket_id, attachment) ==
    [id |-> nextTicketId, ticket_id |-> ticket_id, name |-> plan.name, email |-> plan.email, issue_type |-> plan.issue_type, priority |-> plan.priority, message |-> plan.message, status |-> "Open", attachment_filename |-> attachment, admin_reply |-> <<>>, created_at |-> now, updated_at |-> now]

\* send_email: nothing without credentials; else the admin notification and
\* then the user confirmation, as far as the SMTP exchange gets
SmtpOutcomes == IF smtpSet THEN {"refused", "admin_only", "both"} ELSE {"unset"}
MailsSent(smtp) == IF smtp = "both" THEN 2 ELSE IF smtp = "admin_only" THEN 1 ELSE 0

\* a send_email that lets the exception of a broken SMTP exchange out
send_email_Raises(smtp) == IF smtp = "unset" THEN "skipped" ELSE IF smtp = "both" THEN "sent" ELSE "raised"

\* what send_email returns: False without credentials ("skipped"), True when
\* both mails left ("sent"), False when the SMTP exchange raised, which its
\* except clause catches ("failed")
send_email(smtp) == IF smtp = "unset" THEN "skipped" ELSE IF smtp = "both" THEN "sent" ELSE "failed"

\* send_to_webhook: whether the URL passes the checks and the POST is made
LoopbackHosts == {<<"l","o","c","a","l","h","o","s","t">>, <<"1","2","7",".","0",".","0",".","1">>, <<"0",".","0",".","0",".","0">>}
PrivatePrefixes == {<<"1","0",".">>, <<"1","9","2",".","1","6","8",".">>, <<"1","7","2",".","1","6",".">>}
\* a check that knows no private prefix
WebhookPosts_NoPrefixCheck ==
    /\ webhookUrl # NoUrl
    /\ webhookUrl.scheme \in {<<"h","t","t","p","s">>, <<"h","t","t","p">>}
    /\ webhookUrl.hostname \notin LoopbackHosts

WebhookPosts ==
    /\ webhookUrl # NoUrl
    /\ webhookUrl.scheme \in {<<"h","t","t","p","s">>, <<"h","t","t","p">>}
    /\ webhookUrl.hostname \notin LoopbackHosts
    /\ ~\E pre \in PrivatePrefixes : StartsWith(webhookUrl.hostname, pre)

\* how the webhook answers a POST: a status code, no answer in time, or a
\* connection error
HookAnswers == {"200", "202", "500", "timeout", "error"}
\* what send_to_webhook returns: False before any request when the URL is
\* missing or refused ("skipped"), True for an answer of 200, 201 or 202
\* ("ok"), False for any other answer, a timeout or a request error ("failed")
send_to_webhook(answer) == IF ~WebhookPosts THEN "skipped" ELSE IF answer \in {"200", "201", "202"} THEN "ok" ELSE "failed"

\* a commit that does not notice the database being away
SubmitCommitOk_NoDb(ticket_id) == UniqueTicketIdOk(ticket_id)

\* db.session.commit() of the new row succeeds
SubmitCommitOk(ticket_id) == dbUp /\ UniqueTicketIdOk(ticket_id)

\* the writes of the request and its response; k is the form, bytes the
\* random bytes of the identifier, smtp how far the SMTP exchange gets,
\* answer what the webhook answers
SubmitCommit(s, k, bytes, smtp, answer) ==
    LET plan == FormPlan[k]
        attachment == AttachmentName(k, now)
        ticket_id == generate_ticket_id(bytes)
        mail == send_email(smtp)
    IN /\ uploads' = IF attachment # <<>> THEN uploads \cup {attachment} ELSE uploads
       /\ IF plan.kind # "valid"
          THEN /\ last' = Response("submit", s, plan.kind, "redirect:support", k, NoRow, <<>>, 0, FALSE, <<>>)
               /\ UNCHANGED <<tickets, nextTicketId>>
          ELSE IF SubmitCommitOk(ticket_id)
          THEN /\ nextTicketId <= MaxTickets
               /\ tickets' = tickets \cup {NewTicket(plan, ticket_id, attachment)}
               /\ nextTicketId' = nextTicketId + 1
               /\ last' = IF mail = "raised"
                          THEN Reply("submit", s, "error", "redirect:support", k, nextTicketId, ticket_id, MailsSent(smtp), FALSE, <<>>, [mail |-> mail, hook |-> "none"], {})
                          ELSE Reply("submit", s, "created", "redirect:support", k, nextTicketId, ticket_id, MailsSent(smtp), WebhookPosts, <<>>, [mail |-> mail, hook |-> send_to_webhook(answer)], {})
          ELSE /\ last' = Response("submit", s, "commit_failed", "redirect:support", k, NoRow, ticket_id, 0, FALSE, <<>>)
               /\ UNCHANGED <<tickets, nextTicketId>>

\* the request with a webhook that answers 200
SubmitPost(s) ==
    /\ inflight[s] = NoReq
    /\ \E k \in DailyForms :
           IF FormPlan[k].kind = "valid"
           THEN \E bytes \in TokenDraws, smtp \in SmtpOutcomes : SubmitCommit(s, k, bytes, smtp, "200")
           ELSE \E bytes \in {<<0, 0, 0, 0>>} : SubmitCommit(s, k, bytes, "unset", "200")
    /\ UNCHANGED <<authVars, now, config, mailbox, batch, news>>

\* the request with the mail and the webhook ending in every way
SubmitPostFx(s) ==
    /\ inflight[s] = NoReq
    /\ \E k \in EffectForms :
           IF FormPlan[k].kind = "valid"
           THEN \E bytes \in TokenDraws, smtp \in SmtpOutcomes, answer \in HookAnswers : SubmitCommit(s, k, bytes, smtp, answer)
           ELSE \E bytes \in {<<0, 0, 0, 0>>} : SubmitCommit(s, k, bytes, "unset", "200")
    /\ UNCHANGED <<authVars, now, config, mailbox, batch, news>>

\* the database goes away or comes back
DbOutage ==
    /\ dbUp' = ~dbUp
    /\ last' = Response("db", "s1", IF dbUp THEN "down" ELSE "up", "none", NoArg, NoRow, <<>>, 0, FALSE, <<>>)
    /\ UNCHANGED <<authVars, now, smtpSet, webhookUrl, mailbox, batch, ticketVars>>

\* a day passes
TickDay ==
    /\ now + MinutesPerDay <= MaxDays * MinutesPerDay
    /\ now' = now + MinutesPerDay
    /\ last' = Response("tick", "s1", "tick", "none", NoArg, NoRow, <<>>, 0, FALSE, <<>>)
    /\ UNCHANGED <<authVars, config, mailbox, batch, ticketVars>>

PublicUrl == [scheme |-> <<"h","t","t","p","s">>, hostname |-> <<"n","8","n",".","e","x","a","m","p","l","e",".","c","o","m">>]
\* the portal with mail credentials and a webhook, or with neither
InitSubmit == Start /\ smtpSet \in BOOLEAN /\ webhookUrl = (IF smtpSet THEN PublicUrl ELSE NoUrl)

NextSubmit ==
    \/ SubmitPost("s1")
    \/ TickDay

SpecSubmit == InitSubmit /\ [][NextSubmit]_vars

PrivateUrl == [scheme |-> <<"h","t","t","p">>, hostname |-> <<"1","0",".","0",".","0",".","5">>]
\* the portal with or without mail credentials, and with no webhook, a
\* webhook on a public host or one on a private address
InitEffects == Start /\ smtpSet \in BOOLEAN /\ webhookUrl \in {NoUrl, PublicUrl, PrivateUrl}

NextEffects ==
    \/ SubmitPostFx("s1")
    \/ DbOutage

SpecEffects == InitEffects /\ [][NextEffects]_vars

(***************************************************************************)
(* The administrator's routes.                                             *)
(***************************************************************************)
\* flask_login.current_user of an authenticated client
current_user(s) == CHOOSE u \in users : u.id = session[s].uid

\* a gate that lets every logged-in user through
AdminGate_NoAdminCheck(s) == IF ~is_authenticated(s) THEN "redirect:login" ELSE "ok"

\* @login_required (login_manager.login_view = 'login') and then
\* "if not current_user.is_admin: ... return redirect(url_for('home'))"
AdminGate(s) ==
    IF ~is_authenticated(s) THEN "redirect:login"
    ELSE IF ~current_user(s).is_admin THEN "redirect:home"
    ELSE "ok"

\* the response of a route that the gate closes
Denied(op, s, input) == Response(op, s, IF AdminGate(s) = "redirect:login" THEN "login_required" ELSE "access_denied", AdminGate(s), input, NoRow, <<>>, 0, FALSE, <<>>)

\* the ticket ids of the URLs the clients request
TicketIdArgs == 1..MaxTickets
\* the admin_reply fields the clients post
ReplyInputs == <<NoArg, <<" ", "\t">>, <<" ","o","k"," ">>>>

\* how the SMTP exchange of the reply mail ends
ReplyOutcomes == IF smtpSet THEN {"refused", "delivered"} ELSE {"unset"}
\* send_admin_reply_email: (False, message) without credentials ("skipped"),
\* (True, None) when the mail left ("sent"), (False, message) when the SMTP
\* exchange raised ("failed")
send_admin_reply_email(smtp) == IF smtp = "unset" THEN "skipped" ELSE IF smtp = "delivered" THEN "sent" ELSE "failed"

\* a reply that puts the ticket back to the initial status
ApplyReply_Reopen(t, admin_reply) == [t EXCEPT !.admin_reply = admin_reply, !.status = "Open", !.updated_at = now]

\* a reply that marks the ticket resolved and forgets the text
ApplyReply_NoReply(t, admin_reply) == [t EXCEPT !.status = "Resolved", !.updated_at = now]

\* ticket.admin_reply = admin_reply; ticket.status = 'Resolved'; ticket.updated_at = now
ApplyReply(t, admin_reply) == [t EXCEPT !.admin_reply = admin_reply, !.status = "Resolved", !.updated_at = now]

\* reply_ticket(ticket_id)
ReplyTicket(s) ==
    /\ inflight[s] = NoReq
    /\ \E id \in TicketIdArgs, i \in DOMAIN ReplyInputs, smtp \in ReplyOutcomes :
          LET admin_reply == Strip(ReplyInputs[i])
              found == {t \in tickets : t.id = id}
              mail == send_admin_reply_email(smtp)
          IN IF AdminGate(s) # "ok"
             THEN /\ last' = Denied("reply_ticket", s, i)
                  /\ UNCHANGED tickets
             ELSE IF found = {}
             THEN /\ last' = Response("reply_ticket", s, "not_found", "redirect:dashboard", i, id, <<>>, 0, FALSE, <<>>)
                  /\ UNCHANGED tickets
             ELSE IF admin_reply = <<>>
             THEN /\ last' = Response("reply_ticket", s, "empty", "redirect:dashboard", i, id, <<>>, 0, FALSE, <<>>)
                  /\ UNCHANGED tickets
             ELSE IF dbUp
             THEN /\ tickets' = {IF t \in found THEN ApplyReply(t, admin_reply) ELSE t : t \in tickets}
                  /\ last' = Reply("reply_ticket", s, IF mail = "sent" THEN "replied" ELSE "replied_warning", "redirect:dashboard", i, id, <<>>, IF mail = "sent" THEN 1 ELSE 0, FALSE, <<>>, [mail |-> mail, hook |-> "none"], {})
             ELSE /\ last' = Response("reply_ticket", s, "commit_failed", "redirect:dashboard", i, id, <<>>, 0, FALSE, <<>>)
                  /\ UNCHANGED tickets
    /\ UNCHANGED <<authVars, now, config, mailbox, batch, nextTicketId, uploads, news>>

\* the ticket_ids[] lists the clients post
BulkInputs == <<NoArg, <<<<"x">>>>, <<<<"1">>>>, <<<<"2">>, <<"2">>>>, <<<<" ","1">>, <<"x">>, <<"2">>>>, <<<<"9">>>>>>
\* int(ticket_id): the value of a string of decimal digits, surrounding
\* whitespace allowed; -1 where int raises ValueError
RECURSIVE DigitsValue(_, _)
DigitsValue(s, n) == IF n = 0 THEN 0 ELSE 10 * DigitsValue(s, n - 1) + (CHOOSE d \in 0..9 : DigitChars[d + 1] = s[n])
int(s) == LET d == Strip(s) IN IF d # <<>> /\ \A i \in 1..Len(d) : d[i] \in Digits THEN DigitsValue(d, Len(d)) ELSE -1
\* valid_ticket_ids: the entries int accepts, in order
RECURSIVE valid_ticket_ids(_, _)
valid_ticket_ids(ids, i) == IF i > Len(ids) THEN <<>> ELSE (IF int(ids[i]) >= 0 THEN <<int(ids[i])>> ELSE <<>>) \o valid_ticket_ids(ids, i + 1)

\* the loop body without the status assignment
Resolve_KeepOpen(t) == [t EXCEPT !.updated_at = now]
\* ticket.status = 'Resolved'; ticket.updated_at = now
Resolve(t) == [t EXCEPT !.status = "Resolved", !.updated_at = now]

\* the loop of bulk_resolve over valid_ticket_ids: the table and the count after it
RECURSIVE BulkLoop(_, _, _, _)
BulkLoop(ids, i, tks, count) ==
    IF i > Len(ids) THEN [tickets |-> tks, count |-> count]
    ELSE LET hit == {t \in tks : t.id = ids[i] /\ t.status = "Open"}
         IN IF hit = {} THEN BulkLoop(ids, i + 1, tks, count)
            ELSE BulkLoop(ids, i + 1, {IF t \in hit THEN Resolve(t) ELSE t : t \in tks}, count + 1)

\* bulk_resolve()
BulkResolve(s) ==
    /\ inflight[s] = NoReq
    /\ \E i \in DOMAIN BulkInputs :
          LET valid == valid_ticket_ids(BulkInputs[i], 1)
              done == BulkLoop(valid, 1, tickets, 0)
          IN IF AdminGate(s) # "ok"
             THEN /\ last' = Denied("bulk_resolve", s, i)
                  /\ UNCHANGED tickets
             ELSE IF BulkInputs[i] = <<>>
             THEN /\ last' = Response("bulk_resolve", s, "none_selected", "redirect:dashboard", i, NoRow, <<>>, 0, FALSE, <<>>)
                  /\ UNCHANGED tickets
             ELSE IF valid = <<>>
             THEN /\ last' = Response("bulk_resolve", s, "none_valid", "redirect:dashboard", i, NoRow, <<>>, 0, FALSE, <<>>)
                  /\ UNCHANGED tickets
             ELSE IF dbUp
             THEN /\ tickets' = done.tickets
                  /\ last' = Response("bulk_resolve", s, "resolved", "redirect:dashboard", i, done.count, <<>>, 0, FALSE, <<>>)
             ELSE /\ last' = Response("bulk_resolve", s, "commit_failed", "redirect:dashboard", i, NoRow, <<>>, 0, FALSE, <<>>)
                  /\ UNCHANGED tickets
    /\ UNCHANGED <<authVars, now, config, mailbox, batch, nextTicketId, uploads, news>>

\* os.remove of the ticket's attachment, if it names a file of the folder
RemoveAttachment(t) == IF t.attachment_filename # <<>> THEN uploads \ {t.attachment_filename} ELSE uploads

\* delete_ticket(ticket_id): the file goes before the row, the row with the commit
DeleteTicket(s) ==
    /\ inflight[s] = NoReq
    /\ \E id \in TicketIdArgs :
          LET found == {t \in tickets : t.id = id}
          IN IF AdminGate(s) # "ok"
             THEN /\ last' = Denied("delete_ticket", s, id)
                  /\ UNCHANGED <<tickets, uploads>>
             ELSE IF found = {}
             THEN /\ last' = Response("delete_ticket", s, "not_found", "redirect:dashboard", id, id, <<>>, 0, FALSE, <<>>)
                  /\ UNCHANGED <<tickets, uploads>>
             ELSE \E t \in found :
                  /\ uploads' = RemoveAttachment(t)
                  /\ IF dbUp
                     THEN /\ tickets' = tickets \ {t}
                          /\ last' = Response("delete_ticket", s, "deleted", "redirect:dashboard", id, id, t.ticket_id, 0, FALSE, <<>>)
                     ELSE /\ last' = Response("delete_ticket", s, "commit_failed", "redirect:dashboard", id, id, t.ticket_id, 0, FALSE, <<>>)
                          /\ UNCHANGED tickets
    /\ UNCHANGED <<authVars, now, config, mailbox, batch, nextTicketId, news>>

\* db_filenames: the attachment names the tickets hold
db_filenames == {t.attachment_filename : t \in {r \in tickets : r.attachment_filename # <<>>}}

\* clear_attachments(): the files of the folder no ticket names are removed
ClearAttachments(s) ==
    /\ inflight[s] = NoReq
    /\ LET orphaned_files == uploads \ db_filenames
       IN IF AdminGate(s) # "ok"
          THEN /\ last' = Denied("clear_attachments", s, NoArg)
               /\ UNCHANGED uploads
          ELSE IF orphaned_files = {}
          THEN /\ last' = Response("clear_attachments", s, "none_unused", "redirect:dashboard", NoArg, 0, <<>>, 0, FALSE, <<>>)
               /\ UNCHANGED uploads
          ELSE /\ uploads' = uploads \ orphaned_files
               /\ last' = Response("clear_attachments", s, "cleared", "redirect:dashboard", NoArg, Cardinality(orphaned_files), <<>>, 0, FALSE, <<>>)
    /\ UNCHANGED <<authVars, now, config, mailbox, batch, tickets, nextTicketId, news>>

\* the status, priority and issue_type filters of the dashboard requests
All == <<"a","l","l">>
DashboardFilters == <<
    [status |-> All, priority |-> All, issue_type |-> All],
    [status |-> <<"O","p","e","n">>, priority |-> All, issue_type |-> All],
    [status |-> All, priority |-> Medium, issue_type |-> All],
    [status |-> <<"R","e","s","o","l","v","e","d">>, priority |-> All, issue_type |-> BugReport] >>
\* Ticket.status as the column holds it
StatusText(t) == IF t.status = "Open" THEN <<"O","p","e","n">> ELSE <<"R","e","s","o","l","v","e","d">>
\* the rows the filtered query of the dashboard returns, by primary key
DashboardRows(f) ==
    {t.id : t \in {r \in tickets : /\ (f.status # All => StatusText(r) = f.status)
                                   /\ (f.priority # All => r.priority = f.priority)
                                   /\ (f.issue_type # All => r.issue_type = f.issue_type)}}

\* dashboard()
Dashboard(s) ==
    /\ inflight[s] = NoReq
    /\ \E i \in DOMAIN DashboardFilters :
          last' = IF AdminGate(s) # "ok"
                  THEN Denied("dashboard", s, i)
                  ELSE Reply("dashboard", s, "shown", "page:dashboard", i, Cardinality(tickets), <<>>, 0, FALSE, <<>>, NoFx, DashboardRows(DashboardFilters[i]))
    /\ UNCHANGED <<authVars, now, config, mailbox, batch, ticketVars>>

\* the header row export_tickets writes
CSV_HEADER == <<"Ticket ID", "Name", "Email", "Issue Type", "Priority", "Status", "Message", "Admin Reply", "Attachment", "Created At", "Updated At">>
\* the '%Y-%m-%d' of each day the clock reaches, computed once
Y_m_d == [k \in 0..MaxDays |-> LET d == AddDays(StartDate, k) IN Pad(d[1], 4) \o <<"-">> \o Pad(d[2], 2) \o <<"-">> \o Pad(d[3], 2)]
\* strftime('%Y-%m-%d %H:%M:%S')
strftime_Y_m_d_HMS(t) == Y_m_d[t \div MinutesPerDay] \o <<" ">> \o Pad((t % MinutesPerDay) \div 60, 2) \o <<":">> \o Pad(t % 60, 2) \o <<":">> \o Pad(0, 2)
\* the row of a ticket: its eleven fields in the order of the header
CsvRow(t) == <<t.ticket_id, t.name, t.email, t.issue_type, t.priority, StatusText(t), t.message, t.admin_reply, t.attachment_filename, strftime_Y_m_d_HMS(t.created_at), strftime_Y_m_d_HMS(t.updated_at)>>
\* the ways to list the rows of a set, each once
Listings(S) == {q \in [1..Cardinality(S) -> S] : \A i, j \in 1..Cardinality(S) : q[i] = q[j] => i = j}

\* a query that returns the oldest ticket first
created_at_desc_Asc(q) == \A i, j \in DOMAIN q : i < j => q[i].created_at <= q[j].created_at

\* order_by(Ticket.created_at.desc()): rows created at the same time come in any order
created_at_desc(q) == \A i, j \in DOMAIN q : i < j => q[i].created_at >= q[j].created_at

\* export_tickets(): the header and every row of the table as CSV
ExportTickets(s) ==
    /\ inflight[s] = NoReq
    /\ IF AdminGate(s) # "ok"
       THEN last' = Denied("export_tickets", s, NoArg)
       ELSE \E q \in {l \in Listings(tickets) : created_at_desc(l)} :
               last' = Reply("export_tickets", s, "exported", "csv", NoArg, Cardinality(tickets), <<>>, 0, FALSE, <<>>, NoFx, {[header |-> CSV_HEADER, rows |-> [i \in DOMAIN q |-> CsvRow(q[i])]]})
    /\ UNCHANGED <<authVars, now, config, mailbox, batch, ticketVars>>

\* the file names of the URLs the clients request, besides those of the folder
MissingFile == <<"n","o","n","e",".","p","n","g">>
DottedFile == <<"a",".",".","p","n","g">>
\* '..' in filename or '/' in filename or '\\' in filename
TraversalName(f) == Contains(f, <<".", ".">>) \/ Contains(f, <<"/">>) \/ Contains(f, <<"\\">>)

\* uploaded_file(filename)
UploadedFile(s) ==
    /\ inflight[s] = NoReq
    /\ \E f \in uploads \cup {MissingFile, DottedFile} :
          last' = IF AdminGate(s) # "ok"
                  THEN Denied("uploaded_file", s, f)
                  ELSE IF TraversalName(f)
                  THEN Response("uploaded_file", s, "invalid", "redirect:dashboard", f, NoRow, <<>>, 0, FALSE, <<>>)
                  ELSE IF f \notin uploads
                  THEN Response("uploaded_file", s, "not_found", "redirect:dashboard", f, NoRow, <<>>, 0, FALSE, <<>>)
                  ELSE Reply("uploaded_file", s, "served", "file", f, NoRow, <<>>, 0, FALSE, <<>>, NoFx, {f})
    /\ UNCHANGED <<authVars, now, config, mailbox, batch, ticketVars>>

MAX_TITLE_LENGTH == 200
MAX_CONTENT_LENGTH == 10000
\* the title and content fields of the broadcast forms
BroadcastForms == <<
    [title |-> <<" ">>, content |-> <<"c">>],
    [title |-> Rep("t", MAX_TITLE_LENGTH + 1), content |-> <<"c">>],
    [title |-> <<"t">>, content |-> Rep("c", MAX_CONTENT_LENGTH + 1)],
    [title |-> <<" ", "t">>, content |-> <<"c", " ">>] >>
\* the branch each form takes, computed once
BroadcastPlan ==
    [i \in DOMAIN BroadcastForms |->
        LET title == Strip(BroadcastForms[i].title)
            content == Strip(BroadcastForms[i].content)
        IN [kind |-> IF title = <<>> \/ content = <<>> THEN "missing"
                     ELSE IF Len(title) > MAX_TITLE_LENGTH THEN "title_too_long"
                     ELSE IF Len(content) > MAX_CONTENT_LENGTH THEN "content_too_long"
                     ELSE "valid",
            title |-> IF Len(title) > MAX_TITLE_LENGTH THEN <<>> ELSE title,
            content |-> IF Len(content) > MAX_CONTENT_LENGTH THEN <<>> ELSE content]]

\* admin_broadcast() with GET: the page with the recent news
AdminBroadcastGet(s) ==
    /\ inflight[s] = NoReq
    /\ last' = IF AdminGate(s) # "ok"
               THEN Denied("admin_broadcast", s, 0)
               ELSE Response("admin_broadcast", s, "shown", "page:broadcast", 0, Cardinality(news), <<>>, 0, FALSE, <<>>)
    /\ UNCHANGED <<authVars, now, config, mailbox, batch, ticketVars>>

\* admin_broadcast() with POST: the news row is stored; the newsletter has
\* no subscribers, so no notification is sent
AdminBroadcastPost(s) ==
    /\ inflight[s] = NoReq
    /\ \E i \in DOMAIN BroadcastForms :
          LET plan == BroadcastPlan[i]
          IN IF AdminGate(s) # "ok"
             THEN /\ last' = Denied("admin_broadcast", s, i)
                  /\ UNCHANGED news
             ELSE IF plan.kind # "valid"
             THEN /\ last' = Response("admin_broadcast", s, plan.kind, "redirect:admin_broadcast", i, NoRow, <<>>, 0, FALSE, <<>>)
                  /\ UNCHANGED news
             ELSE IF dbUp
             THEN /\ Cardinality(news) < MaxNews
                  /\ news' = news \cup {[id |-> Cardinality(news) + 1, title |-> plan.title, content |-> plan.content, author_id |-> current_user(s).id, published_at |-> now]}
                  /\ last' = Response("admin_broadcast", s, "broadcast", "redirect:dashboard", i, Cardinality(news) + 1, <<>>, 0, FALSE, <<>>)
             ELSE /\ last' = Response("admin_broadcast", s, "commit_failed", "redirect:admin_broadcast", i, NoRow, <<>>, 0, FALSE, <<>>)
                  /\ UNCHANGED news
    /\ UNCHANGED <<authVars, now, config, mailbox, batch, tickets, nextTicketId, uploads>>

(***************************************************************************)
(* send_to_webhook called on its own.                                      *)
(***************************************************************************)
\* the schemes and hostnames urlparse finds in the configured URLs; the
\* empty hostname is that of a URL without host
WebhookSchemes == {<<"h","t","t","p","s">>, <<"h","t","t","p">>, <<"f","t","p">>, <<"f","i","l","e">>}
WebhookHosts == {<<"n","8","n",".","e","x","a","m","p","l","e",".","c","o","m">>, <<"l","o","c","a","l","h","o","s","t">>, <<"1","2","7",".","0",".","0",".","1">>, <<"0",".","0",".","0",".","0">>, <<"1","0",".","0",".","0",".","5">>, <<"1","9","2",".","1","6","8",".","1",".","9">>, <<"1","7","2",".","1","6",".","0",".","1">>, <<"1","7","2",".","1","7",".","0",".","1">>, <<"1","0","0",".","1",".","1",".","1">>, <<>>}
\* the answers of the webhook, with the status codes around the accepted ones
WebhookAnswers == HookAnswers \cup {"201", "204", "404"}

InitWebhook ==
    /\ Start
    /\ smtpSet = FALSE
    /\ webhookUrl \in {NoUrl} \cup [scheme : WebhookSchemes, hostname : WebhookHosts]

\* send_to_webhook(ticket_data): kind is what it returns, hook whether the POST was made
SendToWebhook ==
    /\ \E answer \in WebhookAnswers :
          last' = Reply("send_to_webhook", "s1", send_to_webhook(answer), "none", answer, NoRow, <<>>, 0, WebhookPosts, <<>>, [mail |-> "none", hook |-> send_to_webhook(answer)], {})
    /\ UNCHANGED <<authVars, now, config, mailbox, batch, ticketVars>>

NextWebhook == SendToWebhook

SpecWebhook == InitWebhook /\ [][NextWebhook]_vars

(***************************************************************************)
(* batch_process_users.                                                    *)
(***************************************************************************)
BATCH_SIZE == 5
\* what a callback does for one recipient: returns a true value, returns
\* a false value, or raises
CallbackOutcomes == {"true", "false", "raise"}
\* batch = user_emails[i:i + BATCH_SIZE]
Chunk(user_emails, i) == SubSeq(user_emails, i + 1, IF i + BATCH_SIZE < Len(user_emails) THEN i + BATCH_SIZE ELSE Len(user_emails))

\* a tally that forgets the callbacks that raise
Tally_DropRaise(results, outcome) ==
    IF outcome = "true" THEN [results EXCEPT !.success = @ + 1]
    ELSE IF outcome = "false" THEN [results EXCEPT !.failed = @ + 1]
    ELSE results

\* results['success'] += 1 for a true value, results['failed'] += 1 for a
\* false value and in the except clause
Tally(results, outcome) ==
    IF outcome = "true" THEN [results EXCEPT !.success = @ + 1] ELSE [results EXCEPT !.failed = @ + 1]

\* a pause after every chunk
MoreChunks_Always(i, n) == TRUE

\* if i + BATCH_SIZE < len(user_emails): the chunk at i is not the last
MoreChunks(i, n) == i + BATCH_SIZE < n

\* the call: results = {'success': 0, 'failed': 0} and the list of n recipients
BatchStart ==
    /\ batch.pc \in {"idle", "done"}
    /\ \E n \in 0..MaxRecipients :
          batch' = [NoBatch EXCEPT !.pc = "loop", !.user_emails = [r \in 1..n |-> r]]
    /\ last' = Response("batch_process_users", "s1", "called", "none", NoArg, NoRow, <<>>, 0, FALSE, <<>>)
    /\ UNCHANGED <<authVars, now, config, mailbox, ticketVars>>

\* one pass of the inner loop: the callback for the next recipient of the chunk
BatchCall ==
    /\ batch.pc = "loop"
    /\ batch.i < Len(batch.user_emails)
    /\ batch.k < Len(Chunk(batch.user_emails, batch.i))
    /\ \E outcome \in CallbackOutcomes :
          /\ batch' = [Tally(batch, outcome) EXCEPT !.k = @ + 1, !.calls = Append(@, Chunk(batch.user_emails, batch.i)[batch.k + 1])]
          /\ last' = Response("batch_process_users", "s1", outcome, "none", NoArg, NoRow, <<>>, 0, FALSE, <<>>)
    /\ UNCHANGED <<authVars, now, config, mailbox, ticketVars>>

\* the end of a chunk: time.sleep(BATCH_DELAY) if more recipients follow,
\* then the next chunk
BatchNextChunk ==
    /\ batch.pc = "loop"
    /\ batch.i < Len(batch.user_emails)
    /\ batch.k = Len(Chunk(batch.user_emails, batch.i))
    /\ batch' = [batch EXCEPT !.i = @ + BATCH_SIZE, !.k = 0, !.sleeps = IF MoreChunks(batch.i, Len(batch.user_emails)) THEN @ + 1 ELSE @]
    /\ last' = Response("batch_process_users", "s1", IF MoreChunks(batch.i, Len(batch.user_emails)) THEN "slept" ELSE "last_chunk", "none", NoArg, NoRow, <<>>, 0, FALSE, <<>>)
    /\ UNCHANGED <<authVars, now, config, mailbox, ticketVars>>

\* range(0, len(user_emails), BATCH_SIZE) is exhausted: return results
BatchReturn ==
    /\ batch.pc = "loop"
    /\ batch.i >= Len(batch.user_emails)
    /\ batch' = [batch EXCEPT !.pc = "done"]
    /\ last' = Reply("batch_process_users", "s1", "returned", "none", NoArg, NoRow, <<>>, 0, FALSE, <<>>, NoFx, {[success |-> batch.success, failed |-> batch.failed]})
    /\ UNCHANGED <<authVars, now, config, mailbox, ticketVars>>

BatchStep == BatchCall \/ BatchNextChunk \/ BatchReturn

NextBatch ==
    \/ BatchStart
    \/ BatchCall
    \/ BatchNextChunk
    \/ BatchReturn

SpecBatch == Init /\ [][NextBatch]_vars
\* the call runs on: the loop takes its next step
SpecBatchFair == Init /\ [][NextBatch]_vars /\ WF_vars(BatchStep)

\* the accounts of the administrator and of a requester, as verify_otp stored them
AdminAccount == [id |-> 1, email |-> AdminEmail, password_hash |-> generate_password_hash(GoodPassword), is_admin |-> IsAdminEmail(AdminEmail), is_verified |-> TRUE]
UserAccount == [id |-> 2, email |-> UserEmail, password_hash |-> generate_password_hash(GoodPassword), is_admin |-> IsAdminEmail(UserEmail), is_verified |-> TRUE]
\* the OTP rows of the two registrations, verified
VerifiedOtps ==
    {[id |-> 1, email |-> AdminEmail, otp_code |-> generate_otp(<<1,2,3,4,5,6>>), expires_at |-> OTP_EXPIRY_MINUTES, verified |-> TRUE, created_at |-> 0],
     [id |-> 2, email |-> UserEmail, otp_code |-> generate_otp(<<1,2,3,4,5,6>>), expires_at |-> OTP_EXPIRY_MINUTES, verified |-> TRUE, created_at |-> 0]}

\* the portal after the administrator and a requester have registered,
\* with or without mail credentials and without a webhook; client s1 is
\* logged in as the user with id uid, or as nobody
Registered(uid) ==
    /\ tickets = {}
    /\ nextTicketId = 1
    /\ uploads = {}
    /\ news = {}
    /\ mailbox = {}
    /\ batch = NoBatch
    /\ users = {AdminAccount, UserAccount}
    /\ otps = VerifiedOtps
    /\ session = [s \in Sessions |-> [pending |-> NoPending, uid |-> IF s = "s1" THEN uid ELSE NoUser]]
    /\ now = 0
    /\ nextOtpId = 3
    /\ nextUserId = 3
    /\ inflight = [s \in Sessions |-> NoReq]
    /\ dbUp = TRUE
    /\ smtpSet \in BOOLEAN
    /\ webhookUrl = NoUrl
    /\ last = Response("init", "s1", "init", "none", NoArg, NoRow, <<>>, 0, FALSE, <<>>)

\* the forms of the runs with the administrator: a rejected one with a
\* file, a valid one without a file, a valid one with a file
AdminForms == {11, 12, 13}
SubmitPostAdmin(s) ==
    /\ inflight[s] = NoReq
    /\ \E k \in AdminForms :
           IF FormPlan[k].kind = "valid"
           THEN \E bytes \in TokenDraws : SubmitCommit(s, k, bytes, IF smtpSet THEN "both" ELSE "unset", "200")
           ELSE \E bytes \in {<<0, 0, 0, 0>>} : SubmitCommit(s, k, bytes, "unset", "200")
    /\ UNCHANGED <<authVars, now, config, mailbox, batch, news>>

\* the administrator is logged in on client s1
InitAdmin == Registered(AdminAccount.id)

\* the administrator replies to, resolves and deletes the tickets that
\* client s2 submits
NextAdmin ==
    \/ SubmitPostAdmin("s2")
    \/ ReplyTicket("s1")
    \/ BulkResolve("s1")
    \/ DeleteTicket("s1")
    \/ ClearAttachments("s1")
    \/ DbOutage

SpecAdmin == InitAdmin /\ [][NextAdmin]_vars

\* the forms of the runs with the export
ExportForms == {13}
SubmitPostExport(s) ==
    /\ inflight[s] = NoReq
    /\ \E k \in ExportForms, bytes \in TokenDraws : SubmitCommit(s, k, bytes, IF smtpSet THEN "both" ELSE "unset", "200")
    /\ UNCHANGED <<authVars, now, config, mailbox, batch, news>>

\* the administrator replies to and exports the tickets that client s2
\* submits on several days
NextExport ==
    \/ SubmitPostExport("s2")
    \/ ReplyTicket("s1")
    \/ ExportTickets("s1")
    \/ TickDay

SpecExport == InitAdmin /\ [][NextExport]_vars

\* the forms and the identifier draw of the runs with the closed routes
GateForms == {11, 13}
SubmitPostGate(s) ==
    /\ inflight[s] = NoReq
    /\ \E k \in GateForms : SubmitCommit(s, k, <<0, 0, 0, 0>>, IF smtpSet THEN "both" ELSE "unset", "200")
    /\ UNCHANGED <<authVars, now, config, mailbox, batch, news>>

\* nobody is logged in
InitGate == Registered(NoUser)

\* client s1 logs in as the administrator or as the requester, logs out,
\* and requests the administrator's routes; client s2 submits tickets
NextGate ==
    \/ LoginPost("s1")
    \/ Logout("s1")
    \/ SubmitPostGate("s2")
    \/ ReplyTicket("s1")
    \/ BulkResolve("s1")
    \/ DeleteTicket("s1")
    \/ ClearAttachments("s1")
    \/ Dashboard("s1")
    \/ ExportTickets("s1")
    \/ UploadedFile("s1")
    \/ AdminBroadcastGet("s1")
    \/ AdminBroadcastPost("s1")

SpecGate == InitGate /\ [][NextGate]_vars

(***************************************************************************)
(* Requests handled one at a time.                                         *)
(***************************************************************************)
Next ==
    \/ \E s \in Sessions : RegisterPost(s)
    \/ \E s \in Sessions : VerifyOtpPost(s)
    \/ Tick

Spec == Init /\ [][Next]_vars

\* the same with clients logging in and out
NextLogin ==
    \/ \E s \in Sessions : RegisterPost(s)
    \/ \E s \in Sessions : VerifyOtpPost(s)
    \/ \E s \in Sessions : LoginPost(s)
    \/ \E s \in Sessions : Logout(s)
    \/ Tick

SpecLogin == Init /\ [][NextLogin]_vars

\* client s1 registers accounts, client s2 logs in with right and wrong
\* credentials and logs out
NextAuth ==
    \/ RegisterPost("s1")
    \/ VerifyOtpPost("s1")
    \/ LoginPostTry("s2")
    \/ Logout("s2")

SpecAuth == Init /\ [][NextAuth]_vars

\* the same as Next with the mailboxes of the addresses in the picture
NextMail ==
    \/ \E s \in Sessions : RegisterPostMail(s)
    \/ \E s \in Sessions : VerifyOtpPost(s)
    \/ Tick

SpecMail == Init /\ [][NextMail]_vars

(***************************************************************************)
(* Requests of different clients handled by concurrent workers: a request  *)
(* reads, other requests may commit, and then it writes.                   *)
(***************************************************************************)
\* forms that pass validation and codes of the right shape: a request that
\* validation rejects writes nothing, whatever runs beside it
WellFormedEmails == {e \in EmailInputs : EmailOk[e]}
WellFormedCodes == {c \in OtpInputs : Len(Strip(c)) = OTP_LENGTH}

Reading(op, s, kind) == Response(op, s, kind, "none", NoArg, NoRow, <<>>, 0, FALSE, <<>>)

RegisterBegin(s) ==
    /\ inflight[s] = NoReq
    /\ \E e \in WellFormedEmails :
           inflight' = [inflight EXCEPT ![s] = RegisterPlan(s, e, GoodPassword, GoodPassword)]
    /\ last' = Reading("register", s, "reading")
    /\ UNCHANGED <<users, otps, session, now, nextOtpId, nextUserId, config, mailbox, batch, ticketVars>>

RegisterEnd(s) ==
    /\ inflight[s] # NoReq
    /\ inflight[s].op = "register"
    /\ IF inflight[s].kind = "issue"
       THEN \E draw \in OtpDraws, delivered \in BOOLEAN : RegisterCommit(s, inflight[s], draw, delivered)
       ELSE RegisterCommit(s, inflight[s], <<0,0,0,0,0,0>>, FALSE)
    /\ inflight' = [inflight EXCEPT ![s] = NoReq]
    /\ UNCHANGED <<now, config, mailbox, batch, ticketVars>>

VerifyOtpBegin(s) ==
    /\ inflight[s] = NoReq
    /\ \E c \in WellFormedCodes : \E plan \in VerifyPlans(s, c) :
           inflight' = [inflight EXCEPT ![s] = plan]
    /\ last' = Reading("verify_otp", s, "reading")
    /\ UNCHANGED <<users, otps, session, now, nextOtpId, nextUserId, config, mailbox, batch, ticketVars>>

VerifyOtpEnd(s) ==
    /\ inflight[s] # NoReq
    /\ inflight[s].op = "verify_otp"
    /\ VerifyCommit(s, inflight[s])
    /\ inflight' = [inflight EXCEPT ![s] = NoReq]
    /\ UNCHANGED <<now, config, mailbox, batch, ticketVars>>

NextConc ==
    \/ \E s \in Sessions : RegisterBegin(s)
    \/ \E s \in Sessions : RegisterEnd(s)
    \/ \E s \in Sessions : VerifyOtpBegin(s)
    \/ \E s \in Sessions : VerifyOtpEnd(s)
    \/ Tick

SpecConc == Init /\ [][NextConc]_vars

(***************************************************************************)
(* Properties of OTP-gated registration.                                   *)
(***************************************************************************)
\* the rows of the claim's wording: for an e-mail, the latest-created row
\* among the unverified ones
LatestUnverified(email) ==
    {r \in otps : /\ r.email = email /\ ~r.verified
                  /\ \A q \in otps : (q.email = email /\ ~q.verified) => q.created_at <= r.created_at}
PendingEmail(s) == session[s].pending.email

\* the submitted code is the code of the latest unverified row of the
\* client's pending e-mail, and that row is not past its expiry
CodeValid(s, code) ==
    /\ session[s].pending # NoPending
    /\ \E r \in LatestUnverified(PendingEmail(s)) : r.otp_code = code /\ ~(now > r.expires_at)

\* C1: a POST to verify_otp creates a User row iff the submitted code is the
\* code of the most recent unverified, unexpired OTP row of the session's
\* pending e-mail; otherwise no user is created and the response redirects
\* to register or back to verify_otp
C1_VerifyCreatesUserIffCodeValid ==
    [][last'.op = "verify_otp" =>
          /\ users \subseteq users'
          /\ (users' # users) <=> CodeValid(last'.sid, last'.input)
          /\ (users' # users) => \E u \in users' \ users : users' = users \cup {u} /\ u.email = PendingEmail(last'.sid)
          /\ (users' = users) => last'.resp \in {"redirect:register", "redirect:verify_otp"}]_vars

C1_Witness ==
    /\ last.op = "verify_otp" /\ last.resp = "redirect:login"
    /\ \E r \in otps : r.id = last.row /\ r.otp_code = last.input /\ r.verified /\ \E u \in users : u.email = r.email

\* C5: a POST to register with the e-mail of an existing user issues no OTP:
\* no OTP row is created or deleted, no mail is sent, no code is shown and the
\* session is as before
C5_RegisterExistingEmailRejected ==
    [][(last'.op = "register" /\ \E u \in users : u.email = last'.input) =>
          /\ otps' = otps /\ users' = users /\ session' = session /\ nextOtpId' = nextOtpId
          /\ last'.mailed = 0 /\ last'.shown = <<>> /\ last'.code = <<>>
          /\ last'.resp = "redirect:register"]_vars

C5_Witness ==
    /\ last.op = "register" /\ last.kind = "exists"
    /\ \E u \in users : u.email = last.input
    /\ \E s \in Sessions : HasPending(s)

\* C6: a POST to verify_otp made after the latest unverified row of the
\* pending e-mail has expired (more than OTP_EXPIRY_MINUTES after its issue)
\* creates no user, deletes that row, drops the pending registration and
\* redirects to register, whatever non-empty code is submitted
C6_ExpiredOtpRejectedAndDeleted ==
    [][(last'.op = "verify_otp" /\ last'.input # <<>> /\ session[last'.sid].pending # NoPending) =>
          \A r \in LatestUnverified(PendingEmail(last'.sid)) :
              now > r.created_at + OTP_EXPIRY_MINUTES =>
                  /\ users' = users
                  /\ otps' = {q \in otps : q.id # r.id}
                  /\ session'[last'.sid].pending = NoPending
                  /\ last'.resp = "redirect:register"]_vars

C6_Witness ==
    /\ last.op = "verify_otp" /\ last.kind = "expired" /\ last.resp = "redirect:register"
    /\ last.input = last.code /\ last.code \in OtpCodes
    /\ ~\E r \in otps : r.id = last.row
    /\ session[last.sid].pending = NoPending

\* C7: a POST to verify_otp with a code other than that of the unexpired
\* pending OTP changes no row and leaves the session as it is, and the right
\* code is still accepted afterwards
C7_WrongCodeChangesNothing ==
    [][\A s \in Sessions : (last'.op = "verify_otp" /\ last'.sid = s /\ session[s].pending # NoPending) =>
          \A r \in LatestUnverified(PendingEmail(s)) :
              (~(now > r.expires_at) /\ r.otp_code # last'.input) =>
                  /\ users' = users /\ otps' = otps /\ session' = session
                  /\ last'.resp = "redirect:verify_otp"
                  /\ CodeValid(s, r.otp_code)']_vars

C7_Witness ==
    /\ last.op = "verify_otp" /\ last.kind = "mismatch" /\ last.input # <<>>
    /\ CodeValid(last.sid, last.code)

\* C8: every user is verified and is an administrator iff its e-mail is the
\* hard-coded address, so at most one administrator exists
C8_AdminOnlyHardcodedEmail ==
    /\ \A u \in users : u.is_verified /\ (u.is_admin <=> u.email = AdminEmail)
    /\ Cardinality({u \in users : u.is_admin}) <= 1

C8_Witness ==
    /\ \E u \in users : u.is_admin
    /\ \E u \in users : ~u.is_admin

\* C9: at most one User row per e-mail, also when the verify_otp requests of
\* two clients with pending registrations for one e-mail are interleaved
C9_OneUserPerEmail == \A u, v \in users : u.email = v.email => u = v

\* the second of two interleaved requests with the right code was refused
C9_Witness ==
    /\ last.op = "verify_otp" /\ last.kind = "commit_failed" /\ last.input = last.code
    /\ \E r \in otps : r.id = last.row /\ r.verified /\ \E u \in users : u.email = r.email
    /\ \E s \in Sessions : s # last.sid /\ ~HasPending(s)
    /\ HasPending(last.sid)

\* C10: an OTP row is inserted unverified, becomes verified only in the
\* commit of a successful verify_otp that inserts the User of its e-mail,
\* never becomes unverified again, and a user is only ever created from a
\* row that was unverified
C10_OtpLifecycle ==
    [][/\ \A r \in otps' : (~\E q \in otps : q.id = r.id) => ~r.verified
       /\ \A q \in otps : \A r \in otps' : (q.id = r.id) =>
              /\ q.verified => r.verified
              /\ (~q.verified /\ r.verified) =>
                     /\ last'.op = "verify_otp" /\ last'.resp = "redirect:login" /\ last'.row = r.id
                     /\ \E u \in users' \ users : u.email = r.email
       /\ (users' # users) =>
              /\ \E q \in otps : q.id = last'.row /\ ~q.verified
              /\ \E r \in otps' : r.id = last'.row /\ r.verified]_vars

C10_Witness ==
    /\ last.op = "verify_otp" /\ last.resp = "redirect:login"
    /\ \E r \in otps : r.id = last.row /\ r.verified /\ \E u \in users : u.email = r.email
    /\ \E r \in otps : ~r.verified


(***************************************************************************)
(* Ticket submission: C2, C3, C4.                                          *)
(***************************************************************************)
UrgentKeywords == {<<"u","r","g","e","n","t">>, <<"a","n","g","r","y">>, <<"a","s","a","p">>}
HasUrgentKeyword(message) == \E kw \in UrgentKeywords : Contains(Lower(message), kw)

\* C2: a ticket whose message contains an urgent keyword, in any case, is
\* stored with priority "High" whatever priority the form carried.
C2_UrgentKeywordStoredHigh ==
    \A t \in tickets : HasUrgentKeyword(t.message) => t.priority = <<"H","i","g","h">>

\* the forms the claim says are rejected: a field empty after trimming, a
\* name, email or message over its limit, an email the regex refuses, an
\* issue type outside the allowed set
C3_RejectedForms ==
    {k \in DOMAIN Forms :
        LET name == Strip(Forms[k].name)
            email == Strip(Forms[k].email)
            issue_type == Strip(Forms[k].issue_type)
            message == Strip(Forms[k].message)
        IN \/ name = <<>> \/ email = <<>> \/ issue_type = <<>> \/ message = <<>>
           \/ Len(name) > 100 \/ Len(email) > 254 \/ Len(message) > 2000
           \/ ~validate_email(email)
           \/ issue_type \notin ALLOWED_ISSUE_TYPES}

\* C3: a submit of a form the validation rejects leaves the ticket table as
\* it was and sends no mail and no webhook POST; a form that passes every
\* check reaches the insert (it is created, or the commit fails).
C3_InvalidSubmitWritesNothing ==
    [][last'.op = "submit" =>
          IF last'.input \in C3_RejectedForms
          THEN /\ tickets' = tickets
               /\ nextTicketId' = nextTicketId
               /\ last'.mailed = 0
               /\ ~last'.hook
               /\ last'.kind \notin {"created", "commit_failed"}
          ELSE /\ last'.kind \in {"created", "commit_failed"}
               /\ last'.kind = "created" => \E t \in tickets' \ tickets : tickets' = tickets \cup {t}]_vars

\* a rejected form arrives at a portal that has tickets, mail credentials and a webhook
C3_Witness ==
    /\ last.op = "submit"
    /\ last.input \in C3_RejectedForms
    /\ last.kind = "email_long"
    /\ tickets # {}
    /\ smtpSet
    /\ webhookUrl # NoUrl

UpperHexChars == Digits \cup {"A", "B", "C", "D", "E", "F"}
TicketIdFormat(id) ==
    /\ Len(id) = 20
    /\ SubSeq(id, 1, 3) = <<"Z","S","-">>
    /\ \A i \in 4..11 : id[i] \in Digits
    /\ id[12] = "-"
    /\ \A i \in 13..20 : id[i] \in UpperHexChars

\* C4: no two ticket rows share a ticket_id, every ticket_id is "ZS-", the
\* eight digits of the date, "-" and eight upper-case hexadecimal
\* characters, and a submit whose generated identifier is already in the
\* table adds no row.
C4_TicketIdUniqueAndFormatted ==
    [][/\ \A t1, t2 \in tickets' : t1.ticket_id = t2.ticket_id => t1 = t2
       /\ \A t \in tickets' : TicketIdFormat(t.ticket_id)
       /\ (last'.op = "submit" /\ \E t \in tickets : t.ticket_id = last'.code) => tickets' = tickets]_vars

\* two tickets with different identifiers are stored and a third submit
\* drew the identifier of one of them
C4_Witness ==
    /\ last.op = "submit"
    /\ last.kind = "commit_failed"
    /\ \E t \in tickets : t.ticket_id = last.code
    /\ \E t1, t2 \in tickets : t1.ticket_id # t2.ticket_id /\ t1.created_at # t2.created_at

(***************************************************************************)
(* Registration and the e-mailed code: C11, C12.                           *)
(***************************************************************************)
\* C11: an account for an address is created only with a code that was
\* e-mailed to that address: the verify_otp that creates the account enters
\* a code that reached the mailbox of the pending address.
C11_AccountOnlyWithMailedCode ==
    [][(last'.op = "verify_otp" /\ last'.kind = "verified") =>
          [to |-> PendingEmail(last'.sid), code |-> last'.input] \in mailbox]_vars

\* C12: a successful register leaves, of the rows of its email, exactly the
\* one new unverified row and touches no row of another email; so there is
\* at most one unverified row per email, and a verify_otp succeeds only
\* with the code of that one row, the one issued last.
C12_RegisterSupersedesOtps ==
    [][/\ (last'.op = "register" /\ last'.kind = "issued") =>
              \E r \in otps' \ otps :
                  /\ r.id = last'.row /\ r.email = last'.input /\ ~r.verified /\ r.otp_code = last'.code
                  /\ {q \in otps' : q.email = last'.input} = {r}
                  /\ {q \in otps' : q.email # last'.input} = {q \in otps : q.email # last'.input}
       /\ \A r1, r2 \in otps' : (r1.email = r2.email /\ ~r1.verified /\ ~r2.verified) => r1 = r2
       /\ (last'.op = "verify_otp" /\ last'.kind = "verified") =>
              \E r \in otps :
                  /\ r.id = last'.row /\ r.otp_code = last'.input
                  /\ {q \in otps : q.email = r.email} = {r}
                  /\ \A q \in otps : q.id <= r.id \/ q.email # r.email]_vars

\* two clients registered the same address one after the other: the row of
\* the first attempt is gone and the row of the second is the only one
C12_Witness ==
    /\ last.op = "register" /\ last.kind = "issued" /\ last.row = 2
    /\ session["s1"].pending.email = last.input
    /\ session["s2"].pending.email = last.input
    /\ \E r \in otps : otps = {r} /\ r.id = 2

(***************************************************************************)
(* Submission, its upload and its side effects: C13, C14, C15, C16.        *)
(***************************************************************************)
\* C13: a submit that validation rejects writes nothing: the ticket table
\* and the uploads folder are after the request what they were before it.
C13_RejectedSubmitWritesNothing ==
    [][(last'.op = "submit" /\ last'.input \in C3_RejectedForms) =>
          (tickets' = tickets /\ uploads' = uploads)]_vars

C14_PrioritySet == {<<"L","o","w">>, <<"M","e","d","i","u","m">>, <<"H","i","g","h">>, <<"U","r","g","e","n","t">>}
\* C14: a form that passes validation is not rejected for its priority; a
\* ticket created from a form without urgent keyword stores the priority of
\* the form if it is Low, Medium, High or Urgent and "Medium" otherwise;
\* every stored priority is one of the four.
C14_PriorityDefaultsToMedium ==
    [][/\ \A t \in tickets' : t.priority \in C14_PrioritySet
       /\ (last'.op = "submit" /\ last'.input \notin C3_RejectedForms) =>
              /\ last'.kind \in {"created", "commit_failed"}
              /\ (last'.kind = "created" /\ ~HasUrgentKeyword(Forms[last'.input].message)) =>
                    \E t \in tickets' \ tickets :
                        /\ t.id = last'.row
                        /\ t.priority = (IF Strip(Forms[last'.input].priority) \in C14_PrioritySet THEN Strip(Forms[last'.input].priority) ELSE <<"M","e","d","i","u","m">>)]_vars

\* a ticket made from the form with priority "Critical" and one made from
\* the form with priority " High " are stored
C14_Witness ==
    /\ \E t \in tickets : Forms[12].priority \notin C14_PrioritySet /\ t.message = Strip(Forms[12].message) /\ t.priority = <<"M","e","d","i","u","m">>
    /\ \E t \in tickets : t.priority = <<"H","i","g","h">>
    /\ last.op = "submit" /\ last.kind = "created"

\* the commit of the submitted row cannot succeed: the database is away or
\* the generated identifier is taken
C15_PersistFails == ~dbUp \/ \E t \in tickets : t.ticket_id = last'.code

\* C15: a valid submission whose row the database takes is answered as
\* created and its row is in the table, however the mails and the webhook
\* call end; no request removes a row.
C15_SideEffectFailuresKeepTicket ==
    [][/\ tickets \subseteq tickets'
       /\ (last'.op = "submit" /\ last'.input \notin C3_RejectedForms /\ ~C15_PersistFails) =>
              /\ last'.kind = "created"
              /\ \E t \in tickets' \ tickets : tickets' = tickets \cup {t} /\ t.id = last'.row /\ t.ticket_id = last'.code]_vars

\* a ticket is created while the SMTP exchange breaks and the webhook fails
C15_Witness ==
    /\ last.op = "submit" /\ last.kind = "created"
    /\ last.fx.mail = "failed" /\ last.fx.hook = "failed"
    /\ \E t \in tickets : t.id = last.row

\* C16: a valid submission whose row cannot be persisted leaves the table
\* as it was, sends no mail and no webhook POST and reports the error; a
\* submit sends mail or POSTs to the webhook only with its row in the table.
C16_SideEffectsOnlyAfterCommit ==
    [][last'.op = "submit" =>
          /\ (last'.input \notin C3_RejectedForms /\ C15_PersistFails) =>
                 /\ tickets' = tickets
                 /\ last'.mailed = 0 /\ ~last'.hook /\ last'.fx = NoFx
                 /\ last'.kind = "commit_failed"
          /\ (last'.mailed > 0 \/ last'.hook \/ last'.fx # NoFx) =>
                 \E t \in tickets' \ tickets : t.id = last'.row /\ t.ticket_id = last'.code]_vars

\* a valid form arrives while the database is away at a portal with mail
\* credentials and a webhook
C16_Witness ==
    /\ last.op = "submit" /\ last.kind = "commit_failed" /\ last.input \notin C3_RejectedForms
    /\ ~dbUp /\ smtpSet /\ WebhookPosts
    /\ ~\E t \in tickets : t.ticket_id = last.code

(***************************************************************************)
(* The ticket lifecycle and the administrator's routes: C17, C18, C19, C20.*)
(***************************************************************************)
\* C17: a new ticket row has status "Open" and no admin reply; the status
\* of a stored row changes only from "Open" to "Resolved" and only in
\* reply_ticket or bulk_resolve; a "Resolved" row stays "Resolved"; every
\* status is "Open" or "Resolved".
C17_StatusOnlyOpenToResolved ==
    [][/\ \A t \in tickets' : t.status \in {"Open", "Resolved"}
       /\ \A t \in tickets' : (~\E r \in tickets : r.id = t.id) => (t.status = "Open" /\ t.admin_reply = <<>>)
       /\ \A r \in tickets, t \in tickets' :
             (r.id = t.id /\ r.status # t.status) =>
                 (r.status = "Open" /\ t.status = "Resolved" /\ last'.op \in {"reply_ticket", "bulk_resolve"})]_vars

\* bulk_resolve resolves one ticket while another, resolved by a reply
\* before, is in its list or in the table
C17_Witness ==
    /\ last.op = "bulk_resolve" /\ last.kind = "resolved" /\ last.row = 1
    /\ \E t1, t2 \in tickets :
          /\ t1.status = "Resolved" /\ t1.admin_reply # <<>>
          /\ t2.status = "Resolved" /\ t2.admin_reply = <<>>

\* C18: reply_ticket by the administrator with a reply that is not blank on
\* a stored ticket, the database up, stores the trimmed reply and the status
\* "Resolved" in that row and changes no other row, also when the mail is
\* not configured or fails, which it reports as a warning; a blank reply or
\* an unknown id changes no ticket and sends no mail.
C18_ReplyStoredDespiteMailFailure ==
    [][last'.op = "reply_ticket" =>
          LET admin_reply == Strip(ReplyInputs[last'.input])
              found == {t \in tickets : t.id = last'.row}
          IN /\ (found # {} /\ admin_reply # <<>> /\ dbUp) =>
                    /\ \E t \in found :
                          tickets' = (tickets \ {t}) \cup {[t EXCEPT !.admin_reply = admin_reply, !.status = "Resolved", !.updated_at = now]}
                    /\ last'.kind = (IF last'.fx.mail = "sent" THEN "replied" ELSE "replied_warning")
                    /\ last'.fx.mail \in {"sent", "failed", "skipped"}
                    /\ last'.mailed = (IF last'.fx.mail = "sent" THEN 1 ELSE 0)
             /\ (found = {} \/ admin_reply = <<>>) =>
                    (tickets' = tickets /\ last'.mailed = 0 /\ last'.fx = NoFx)]_vars

\* a reply is stored while the SMTP exchange of its mail fails
C18_Witness ==
    /\ last.op = "reply_ticket" /\ last.kind = "replied_warning" /\ last.fx.mail = "failed"
    /\ \E t \in tickets : t.id = last.row /\ t.status = "Resolved" /\ t.admin_reply = <<"o","k">>

\* C19: after delete_ticket has deleted a ticket its row is gone and its
\* attachment is no longer in the uploads folder, every other row is as it
\* was and the attachment of every other ticket that was in the folder
\* still is; a request for an unknown id changes no row and no file.
C19_DeleteRemovesOnlyItsOwn ==
    [][last'.op = "delete_ticket" =>
          /\ last'.kind = "deleted" =>
                \E t \in tickets :
                    /\ t.id = last'.row
                    /\ tickets' = tickets \ {t}
                    /\ t.attachment_filename # <<>> => t.attachment_filename \notin uploads'
                    /\ \A r \in tickets' : r.attachment_filename \in uploads => r.attachment_filename \in uploads'
          /\ last'.kind = "not_found" => (tickets' = tickets /\ uploads' = uploads)]_vars

C20_AdminOps == {"dashboard", "reply_ticket", "export_tickets", "bulk_resolve", "clear_attachments", "delete_ticket", "admin_broadcast", "uploaded_file"}
\* C20: a request to one of the eight routes by a client that is not logged
\* in is redirected to login, one by a logged-in user who is not an
\* administrator is redirected to home, and both change no ticket, no news
\* row and no file and return no ticket data and no file.
C20_AdminRoutesClosed ==
    [][last'.op \in C20_AdminOps =>
          LET who == {u \in users : u.id = session[last'.sid].uid}
              untouched == tickets' = tickets /\ news' = news /\ uploads' = uploads /\ last'.data = {}
          IN /\ who = {} => (last'.resp = "redirect:login" /\ untouched)
             /\ (\E u \in who : ~u.is_admin) => (last'.resp = "redirect:home" /\ untouched)
             /\ ~untouched => \E u \in who : u.is_admin]_vars

\* the requester, logged in, asks for the deletion of a stored ticket
\* whose attachment is in the folder
C20_Witness ==
    /\ last.op = "delete_ticket" /\ last.kind = "access_denied" /\ last.resp = "redirect:home"
    /\ session[last.sid].uid = UserAccount.id
    /\ \E t \in tickets : t.id = last.input /\ t.attachment_filename \in uploads

(***************************************************************************)
(* The CSV export: C21.                                                    *)
(***************************************************************************)
\* C21: the CSV export_tickets returns has the eleven column names in the
\* fixed order as header, then one row per ticket of the table, each ticket
\* once, a ticket created later before one created earlier, and the
\* request changes no ticket.
C21_ExportCsvShape ==
    [][(last'.op = "export_tickets" /\ last'.kind = "exported") =>
          /\ tickets' = tickets
          /\ \E csv \in last'.data :
                /\ last'.data = {csv}
                /\ csv.header = <<"Ticket ID", "Name", "Email", "Issue Type", "Priority", "Status", "Message", "Admin Reply", "Attachment", "Created At", "Updated At">>
                /\ Len(csv.rows) = Cardinality(tickets)
                /\ \A t \in tickets : \E i \in DOMAIN csv.rows :
                      /\ Len(csv.rows[i]) = 11
                      /\ csv.rows[i][1] = t.ticket_id /\ csv.rows[i][2] = t.name /\ csv.rows[i][3] = t.email
                      /\ csv.rows[i][4] = t.issue_type /\ csv.rows[i][5] = t.priority
                      /\ csv.rows[i][6] = (IF t.status = "Open" THEN <<"O","p","e","n">> ELSE <<"R","e","s","o","l","v","e","d">>)
                      /\ csv.rows[i][7] = t.message /\ csv.rows[i][8] = t.admin_reply /\ csv.rows[i][9] = t.attachment_filename
                /\ \A i, j \in DOMAIN csv.rows : \A ti, tj \in tickets :
                      (i < j /\ csv.rows[i][1] = ti.ticket_id /\ csv.rows[j][1] = tj.ticket_id) => ti.created_at >= tj.created_at]_vars

\* an export of two tickets, one created a day after the other and one of
\* them replied to
C21_Witness ==
    /\ last.op = "export_tickets" /\ last.kind = "exported"
    /\ \E t1, t2 \in tickets : t1.created_at < t2.created_at /\ t1.admin_reply # <<>>
    /\ \E csv \in last.data : Len(csv.rows) = 2 /\ csv.rows[1][10] = <<"2","0","2","6","-","0","1","-","0","1"," ","0","0",":","0","0",":","0","0">>

(***************************************************************************)
(* batch_process_users: C22, C23.                                          *)
(***************************************************************************)
\* C22: every callback is for the next recipient of the list, in list
\* order; one that returns a true value adds one to success, one that
\* returns a false value or raises adds one to failed, and the loop goes
\* on; nothing else changes the counts; on return every recipient has been
\* called once and success + failed is the number of recipients.
C22_BatchCountsEveryRecipient ==
    [][last'.op = "batch_process_users" =>
          /\ last'.kind \in {"true", "false", "raise"} =>
                /\ batch'.calls = Append(batch.calls, batch.user_emails[Len(batch.calls) + 1])
                /\ batch'.success = batch.success + (IF last'.kind = "true" THEN 1 ELSE 0)
                /\ batch'.failed = batch.failed + (IF last'.kind = "true" THEN 0 ELSE 1)
                /\ batch'.pc = "loop"
          /\ last'.kind \in {"slept", "last_chunk", "returned"} =>
                (batch'.calls = batch.calls /\ batch'.success = batch.success /\ batch'.failed = batch.failed)
          /\ last'.kind = "returned" =>
                /\ batch'.calls = batch'.user_emails
                /\ batch'.success + batch'.failed = Len(batch'.user_emails)
                /\ last'.data = {[success |-> batch'.success, failed |-> batch'.failed]}]_vars

\* a call with seven recipients returns with three successes and four failures
C22_Witness ==
    /\ last.op = "batch_process_users" /\ last.kind = "returned"
    /\ Len(batch.user_emails) = 7 /\ batch.success = 3 /\ batch.failed = 4

\* C23: the pause number j comes after exactly 5 * j callbacks and only
\* when recipients remain, no callback of a later chunk runs before the
\* pause that precedes it, a call of n > 0 recipients returns after
\* ceil(n / 5) - 1 pauses and one of no recipient after none, and every
\* call returns.
C23_BatchSleepsBetweenChunks ==
    /\ [][batch'.sleeps # batch.sleeps =>
             \/ batch'.sleeps = 0
             \/ /\ batch'.sleeps = batch.sleeps + 1
                /\ Len(batch.calls) = 5 * batch'.sleeps
                /\ Len(batch.calls) < Len(batch.user_emails)]_vars
    /\ [][Len(batch'.calls) > Len(batch.calls) => batch.sleeps = Len(batch.calls) \div 5]_vars
    /\ [](batch.pc = "done" =>
             batch.sleeps = (IF Len(batch.user_emails) = 0 THEN 0 ELSE ((Len(batch.user_emails) + 4) \div 5) - 1))
    /\ (batch.pc = "loop" ~> batch.pc = "done")

\* a call with eleven recipients has returned after two pauses, and one
\* with ten recipients after one
C23_Witness ==
    /\ batch.pc = "done"
    /\ \/ Len(batch.user_emails) = 11 /\ batch.sleeps = 2
       \/ Len(batch.user_emails) = 10 /\ batch.sleeps = 1

(***************************************************************************)
(* The webhook: C24.                                                       *)
(***************************************************************************)
C24_UrlAllowed ==
    /\ webhookUrl # NoUrl
    /\ webhookUrl.scheme \in {<<"h","t","t","p">>, <<"h","t","t","p","s">>}
    /\ webhookUrl.hostname \notin {<<"l","o","c","a","l","h","o","s","t">>, <<"1","2","7",".","0",".","0",".","1">>, <<"0",".","0",".","0",".","0">>}
    /\ \A pre \in {<<"1","0",".">>, <<"1","9","2",".","1","6","8",".">>, <<"1","7","2",".","1","6",".">>} :
          ~(Len(webhookUrl.hostname) >= Len(pre) /\ SubSeq(webhookUrl.hostname, 1, Len(pre)) = pre)
C25_LoginWithRegisteredPassword ==
    [][/\ (last'.op = "verify_otp" /\ last'.kind = "verified") =>
             \E u \in users' \ users :
                 \A p \in LoginPasswords :
                     (u.password_hash = <<"h","$">> \o NormPassword[p]) <=> (NormPassword[p] = session[last'.sid].pending.password)
       /\ last'.op = "login" =>
             /\ users' = users /\ otps' = otps /\ tickets' = tickets
             /\ (~\E u \in users : u.id = session[last'.sid].uid) =>
                    LET email == Lower(Strip(last'.input[1]))
                        password == Strip(last'.input[2])
                        owner == {u \in users : u.email = email /\ u.password_hash = <<"h","$">> \o password}
                    IN IF owner # {} /\ password # <<>>
                       THEN last'.kind = "logged_in" /\ \E u \in owner : session' = [session EXCEPT ![last'.sid].uid = u.id]
                       ELSE last'.kind \in {"invalid", "missing"} /\ session' = session]_vars

\* a registered user has logged in with the registered password typed
\* with blanks around it, while the client that registered is anonymous
C25_Witness ==
    /\ last.op = "login" /\ last.kind = "logged_in"
    /\ last.input[2] = <<" ">> \o GoodPassword \o <<" ">>
    /\ \E u \in users : u.id = session[last.sid].uid /\ u.email = UserEmail
    /\ \E s \in Sessions : session[s].uid = NoUser

(***************************************************************************)
(* Navigation: the pages a browser requests with GET, and the redirects    *)
(* it follows.                                                             *)
(***************************************************************************)
\* the routes that render a template whoever asks
PublicPages == {"home", "support", "faq", "about", "track"}
ViewRoutes == PublicPages \cup {"login", "register", "verify_otp"}
Routes == ViewRoutes \cup {"dashboard", "logout"}

\* home() with a gate that sends a signed-in non-admin back to the dashboard
View_HomeToDashboard(r, s) ==
    CASE r \in PublicPages ->
             IF r = "home" /\ is_authenticated(s) /\ ~current_user(s).is_admin
             THEN "redirect:dashboard" ELSE "page:public"
      [] r = "login" -> IF is_authenticated(s) THEN "redirect:dashboard" ELSE "page:login"
      [] r = "register" -> IF is_authenticated(s) THEN "redirect:dashboard" ELSE "page:register"
      [] r = "verify_otp" -> IF ~HasPending(s) THEN "redirect:register" ELSE "page:verify_otp"
\* the answer to GET of a route that changes nothing: the public pages
\* render; login and register send a signed-in client to the dashboard;
\* verify_otp sends a client without pending registration to register
View(r, s) ==
    CASE r \in PublicPages -> "page:public"
      [] r = "login" -> IF is_authenticated(s) THEN "redirect:dashboard" ELSE "page:login"
      [] r = "register" -> IF is_authenticated(s) THEN "redirect:dashboard" ELSE "page:register"
      [] r = "verify_otp" -> IF ~HasPending(s) THEN "redirect:register" ELSE "page:verify_otp"

\* url_for(endpoint) of every redirect the handlers answer with
RedirectTarget ==
    ("redirect:login" :> "login") @@ ("redirect:register" :> "register") @@
    ("redirect:verify_otp" :> "verify_otp") @@ ("redirect:dashboard" :> "dashboard") @@
    ("redirect:home" :> "home") @@ ("redirect:support" :> "support") @@
    ("redirect:admin_broadcast" :> "admin_broadcast")
\* the response in hand is a redirect the browser has yet to follow
Redirecting == last.resp \in DOMAIN RedirectTarget

\* GET of route r by client s; how == "direct" for an address typed in,
\* "followed" for the target of a redirect
Get(s, r, how) ==
    \/ /\ r \in ViewRoutes
       /\ inflight[s] = NoReq
       /\ last' = Response("get", s, how, View(r, s), <<r>>, NoRow, <<>>, 0, FALSE, <<>>)
       /\ UNCHANGED <<authVars, now, config, mailbox, batch, ticketVars>>
    \/ r = "dashboard" /\ Dashboard(s)
    \/ r = "logout" /\ Logout(s)

\* the client requests any route once no redirect is left to follow
Browse(s) == ~Redirecting /\ \E r \in Routes : Get(s, r, "direct")
\* the browser follows the redirect in hand
Follow(s) == Redirecting /\ last.sid = s /\ Get(s, RedirectTarget[last.resp], "followed")

\* one client registers, verifies, logs in and out and browses; its browser
\* follows every redirect before the next request
NextNav ==
    \/ ~Redirecting /\ RegisterPost("s1")
    \/ ~Redirecting /\ VerifyOtpPost("s1")
    \/ ~Redirecting /\ LoginPost("s1")
    \/ Browse("s1")
    \/ Follow("s1")

SpecNav == Init /\ [][NextNav]_vars /\ WF_vars(Follow("s1"))

\* C26: following redirects always ends at a page that renders: whenever the
\* response in hand is a redirect, a response that is not a redirect comes
\* after finitely many hops, whatever the client's state; for an anonymous
\* client login, register and the public pages render at once, and
\* verify_otp renders for a client with a pending registration, signed in or not
C26_NoRedirectLoop ==
    /\ [](Redirecting => <>(~Redirecting))
    /\ [][(last'.op = "get" /\ ~is_authenticated(last'.sid) /\ last'.input[1] \in PublicPages \cup {"login", "register"})
            => last'.resp \in {"page:public", "page:login", "page:register"}]_vars
    /\ [][(last'.op = "get" /\ HasPending(last'.sid) /\ last'.input = <<"verify_otp">>)
            => last'.resp = "page:verify_otp"]_vars
\* a signed-in non-admin was sent on from login or the dashboard and ended on
\* the home page
C26_Witness ==
    /\ last.op = "get" /\ last.kind = "followed" /\ last.input = <<"home">>
    /\ last.resp = "page:public"
    /\ is_authenticated(last.sid) /\ ~current_user(last.sid).is_admin

\* the ticket ids each entry of BulkInputs selects, read off the entries
C27_Selected == <<{}, {}, {1}, {2}, {1, 2}, {9}>>
\* C27: bulk_resolve by the administrator, committed, sets the status of
\* exactly the selected tickets that exist and are Open to "Resolved" and
\* reports their number, an id listed twice counted once; every other
\* ticket is left as it was, no row is added or removed, and no ticket's
\* admin_reply, priority or message changes; a bulk_resolve that is not
\* committed changes no ticket.
C27_BulkResolveExactlyOpenSelected ==
    [][last'.op = "bulk_resolve" =>
         IF last'.kind = "resolved"
         THEN LET hit == {t \in tickets : t.id \in C27_Selected[last'.input] /\ t.status = "Open"}
              IN /\ last'.row = Cardinality(hit)
                 /\ {t.id : t \in tickets'} = {t.id : t \in tickets}
                 /\ Cardinality(tickets') = Cardinality(tickets)
                 /\ \A t \in tickets \ hit : t \in tickets'
                 /\ \A t \in hit : \E u \in tickets' :
                       /\ u.id = t.id /\ u.status = "Resolved"
                       /\ u.admin_reply = t.admin_reply /\ u.priority = t.priority /\ u.message = t.message
                       /\ u.ticket_id = t.ticket_id /\ u.attachment_filename = t.attachment_filename
         ELSE tickets' = tickets]_vars
\* the list names ticket 2 twice and it was Open: one ticket counted, while
\* another ticket, not listed, stays Open
C27_Witness ==
    /\ last.op = "bulk_resolve" /\ last.kind = "resolved"
    /\ BulkInputs[last.input] = <<<<"2">>, <<"2">>>>
    /\ last.row = 1
    /\ \E t \in tickets : t.id = 2 /\ t.status = "Resolved" /\ t.admin_reply = <<>>
    /\ \E t \in tickets : t.id = 1 /\ t.status = "Open"

(***************************************************************************)
(* /submit handled by a worker of its own: the upload is saved when the    *)
(* form is read, the ticket is committed later, and requests of other      *)
(* clients run in between.                                                 *)
(***************************************************************************)
\* submit(), from reading the form to file.save
SubmitBegin(s) ==
    /\ inflight[s] = NoReq
    /\ \E k \in AdminForms :
          /\ inflight' = [inflight EXCEPT ![s] = [op |-> "submit", k |-> k, attachment |-> AttachmentName(k, now)]]
          /\ uploads' = IF AttachmentName(k, now) # <<>> THEN uploads \cup {AttachmentName(k, now)} ELSE uploads
    /\ last' = Reading("submit", s, "saved")
    /\ UNCHANGED <<users, otps, session, now, nextOtpId, nextUserId, config, mailbox, batch, tickets, nextTicketId, news>>

\* submit(), from the validation to the response
SubmitEnd(s) ==
    /\ inflight[s] # NoReq
    /\ inflight[s].op = "submit"
    /\ LET k == inflight[s].k
           plan == FormPlan[k]
           smtp == IF smtpSet THEN "both" ELSE "unset"
       IN IF plan.kind # "valid"
          THEN /\ last' = Response("submit", s, plan.kind, "redirect:support", k, NoRow, <<>>, 0, FALSE, <<>>)
               /\ UNCHANGED <<tickets, nextTicketId>>
          ELSE \E bytes \in TokenDraws :
                 LET ticket_id == generate_ticket_id(bytes)
                 IN IF SubmitCommitOk(ticket_id)
                    THEN /\ nextTicketId <= MaxTickets
                         /\ tickets' = tickets \cup {NewTicket(plan, ticket_id, inflight[s].attachment)}
                         /\ nextTicketId' = nextTicketId + 1
                         /\ last' = Reply("submit", s, "created", "redirect:support", k, nextTicketId, ticket_id, MailsSent(smtp), WebhookPosts, <<>>, [mail |-> send_email(smtp), hook |-> send_to_webhook("200")], {})
                    ELSE /\ last' = Response("submit", s, "commit_failed", "redirect:support", k, NoRow, ticket_id, 0, FALSE, <<>>)
                         /\ UNCHANGED <<tickets, nextTicketId>>
    /\ inflight' = [inflight EXCEPT ![s] = NoReq]
    /\ UNCHANGED <<users, otps, session, now, nextOtpId, nextUserId, config, mailbox, batch, uploads, news>>

\* the administrator on s1 clears the folder while the clients' submits are
\* in progress; no ticket is deleted
NextRace ==
    \/ SubmitBegin("s2")
    \/ SubmitEnd("s2")
    \/ ClearAttachments("s1")
    \/ DbOutage
    \/ TickDay

SpecRace == InitAdmin /\ [][NextRace]_vars

\* C28: clear_attachments removes no file that is the attachment of a ticket
\* or becomes one when a /submit request in progress commits: the file of
\* every ticket's attachment exists at all times, also when
\* clear_attachments ran between a submit's file save and its commit.
C28_ClearKeepsAttachmentsInProgress ==
    \A t \in tickets : t.attachment_filename # <<>> => t.attachment_filename \in uploads

\* C29: stored attachment names are collision-free: no two tickets hold the
\* same attachment file name, so every submission's upload is a file of its
\* own.
C29_AttachmentNamesDistinct ==
    \A t1, t2 \in tickets :
        (t1.id # t2.id /\ t1.attachment_filename # <<>>) => t1.attachment_filename # t2.attachment_filename

\* one client registers and verifies while the database comes and goes
NextOutage ==
    \/ RegisterPost("s1")
    \/ VerifyOtpPost("s1")
    \/ DbOutage
    \/ Tick

SpecOutage == Init /\ [][NextOutage]_vars

\* C30: a register request whose OTP could not be persisted leaves the
\* state as it was: the OTP rows are those of before, no OTP mail is sent,
\* and the session's pending registration is the one of before.
C30_FailedRegisterLeavesNoPending ==
    [][(last'.op = "register" /\ last'.kind = "commit_failed") =>
          (otps' = otps /\ last'.mailed = 0 /\ session' = session)]_vars

=========================================================================
